---- MODULE Spec2Model ----
(***************************************************************************)
(* Model of scipy/stats/_hypotests.py: the axis / nan_policy vectorization *)
(* wrapper built by _vectorize_hypotest_factory, its helpers _remove_nans  *)
(* and _check_empty_inputs, and the input validation of the kernels it     *)
(* decorates.                                                              *)
(*                                                                         *)
(* Arrays are records [shape, data]: shape is the tuple of dimension       *)
(* lengths (at most two dimensions are modelled), data the elements in     *)
(* row-major order.  An element is an integer; NaN is a reserved integer.  *)
(* Python values that are not arrays are records of another field:         *)
(* [str |-> s], [int |-> i], [none |-> TRUE].                              *)
(* The numerical value a kernel computes is kept symbolic: a statistic is  *)
(* the term "kernel applied to these samples with these parameters".       *)
(***************************************************************************)
EXTENDS Integers, Sequences, FiniteSets, TLC

\* ---------------------------------------------------------------- bounds
\* largest length of a dimension of a generated sample
MaxLen == 3
\* largest number of NaNs placed in the samples of one call
MaxNaNs == 1
\* the fewest observations epps_singleton_2samp accepts in a sample
MinObs == 5

\* ------------------------------------------------------- values, arrays
NaN == -1
None == [none |-> TRUE]
StrV(s) == [str |-> s]
IntV(i) == [int |-> i]

isnan(v) == v = NaN

RECURSIVE Prod(_)
Prod(shape) == IF shape = <<>> THEN 1 ELSE shape[1] * Prod(Tail(shape))

RECURSIVE Sum(_)
Sum(s) == IF s = <<>> THEN 0 ELSE s[1] + Sum(Tail(s))

Max(S) == CHOOSE m \in S : \A n \in S : n <= m

Array(shape, data) == [shape |-> shape, data |-> data]
Array1(data) == [shape |-> <<Len(data)>>, data |-> data]
IsArray(v) == DOMAIN v = {"shape", "data"}
ndim(a) == Len(a.shape)
size(a) == Len(a.data)
\* len(a): length of the first dimension
len(a) == a.shape[1]
contains_nan_value(a) == \E j \in 1..Len(a.data) : isnan(a.data[j])

\* np.atleast_1d: a 0-d scalar becomes a 1-element vector
atleast_1d(a) == IF a.shape = <<>> THEN Array(<<1>>, a.data) ELSE a
\* ndarray.ravel: the elements in row-major order as a vector
ravel(a) == Array(<<Len(a.data)>>, a.data)

\* element (r, c) of a 2-d array, 1-based
At(a, r, c) == a.data[(r - 1) * a.shape[2] + c]

\* sample[mask] for a 1-d sample and a boolean mask of the same length
RECURSIVE TakeMask(_, _)
TakeMask(d, m) ==
    IF d = <<>> THEN <<>>
    ELSE (IF m[1] THEN <<d[1]>> ELSE <<>>) \o TakeMask(Tail(d), Tail(m))

\* np.isnan(sample) of a 1-d sample
isnan_mask(a) == [j \in 1..Len(a.data) |-> isnan(a.data[j])]

\* ------------------------------------------------------------ _remove_nans
\* What an operation of the wrapper hands back: a value, or the exception it
\* raised.
Ok(v) == [ok |-> TRUE, val |-> v]
Raise(type, by) == [ok |-> FALSE, type |-> type, by |-> by]

\* a | b for two 1-d boolean masks under NumPy broadcasting: equal lengths,
\* or one of them of length 1 (stretched to the other's length)
mask_or(a, b) ==
    IF Len(a) = Len(b) THEN Ok([j \in 1..Len(a) |-> a[j] \/ b[j]])
    ELSE IF Len(a) = 1 THEN Ok([j \in 1..Len(b) |-> a[1] \/ b[j]])
    ELSE IF Len(b) = 1 THEN Ok([j \in 1..Len(a) |-> a[j] \/ b[1]])
    ELSE Raise("ValueError", "_remove_nans")

\* the loop "for sample in samples[1:]: nans = nans | np.isnan(sample)"
RECURSIVE nans_of(_, _)
nans_of(samples, k) ==
    IF k = 1 THEN Ok(isnan_mask(samples[1]))
    ELSE LET prev == nans_of(samples, k - 1) IN
         IF ~prev.ok THEN prev ELSE mask_or(prev.val, isnan_mask(samples[k]))

\* mutant: paired samples are filtered one by one
remove_nans_paired_each(samples) ==
    Ok([i \in 1..Len(samples) |->
           Array1(TakeMask(samples[i].data,
                           [j \in 1..Len(samples[i].data) |->
                               ~isnan_mask(samples[i])[j]]))])

\* the paired branch: one combined mask applied to every sample
remove_nans_paired(samples) ==
    LET nans == nans_of(samples, Len(samples)) IN
    IF ~nans.ok THEN nans
    ELSE LET not_nans == [j \in 1..Len(nans.val) |-> ~nans.val[j]] IN
         IF \E i \in 1..Len(samples) : Len(samples[i].data) # Len(not_nans)
         THEN Raise("IndexError", "_remove_nans")
         ELSE Ok([i \in 1..Len(samples) |->
                     Array1(TakeMask(samples[i].data, not_nans))])

\* mutant: the mask is not negated, the NaNs are what is kept
remove_nans_unpaired_inverted(samples) ==
    Ok([i \in 1..Len(samples) |->
           Array1(TakeMask(samples[i].data, isnan_mask(samples[i])))])

\* the unpaired branch: every sample filtered by its own mask
remove_nans_unpaired(samples) ==
    Ok([i \in 1..Len(samples) |->
           Array1(TakeMask(samples[i].data,
                           [j \in 1..Len(samples[i].data) |->
                               ~isnan_mask(samples[i])[j]]))])

_remove_nans(samples, paired) ==
    IF ~paired THEN remove_nans_unpaired(samples)
    ELSE remove_nans_paired(samples)

\* ------------------------------------------------ broadcasting (scipy.stats.stats)
\* Samples of the N-d path have two dimensions here.  The processed axis,
\* counted from 0 after resolving a negative axis:
norm_axis(axis, nd) == IF axis < 0 THEN axis + nd ELSE axis
\* position (from 1) in the shape tuple of the processed axis / of the other one
axis_pos(axis) == norm_axis(axis, 2) + 1
other_pos(axis) == 3 - axis_pos(axis)

\* NumPy broadcasting of a set of dimension lengths: all equal, except that
\* a length of 1 stretches to the common one
broadcastable(dims) == Cardinality(dims \ {1}) <= 1
broadcast_dim(dims) == IF dims \ {1} = {} THEN 1 ELSE CHOOSE d \in dims \ {1} : TRUE

\* _broadcast_array_shapes(samples, axis): the broadcast shape of the
\* samples' dimensions other than `axis`
_broadcast_array_shapes(samples, axis) ==
    <<broadcast_dim({samples[i].shape[other_pos(axis)] : i \in 1..Len(samples)})>>

\* sample element at (k, j): k along the broadcast dimension, j along the axis
bc_at(a, axis, bdim, k, j) ==
    LET kk == IF a.shape[other_pos(axis)] = bdim THEN k ELSE 1 IN
    IF axis_pos(axis) = 2 THEN At(a, kk, j) ELSE At(a, j, kk)

\* np.cumsum
cumsum(lengths) == [i \in 1..Len(lengths) |-> Sum(SubSeq(lengths, 1, i))]

\* which sample the j-th position along the concatenated axis comes from
owner(split_indices, j) ==
    CHOOSE i \in 1..Len(split_indices) :
        /\ j <= split_indices[i]
        /\ \A h \in 1..(i - 1) : j > split_indices[h]

\* _broadcast_concatenate(samples, axis): the samples, broadcast along the
\* other dimension, joined along `axis`
_broadcast_concatenate(samples, axis) ==
    LET bdim  == _broadcast_array_shapes(samples, axis)[1]
        lens  == [i \in 1..Len(samples) |-> samples[i].shape[axis_pos(axis)]]
        ends  == cumsum(lens)
        total == Sum(lens)
        elem(k, j) == LET i == owner(ends, j) IN
                      bc_at(samples[i], axis, bdim, k, j - (ends[i] - lens[i]))
        shape == IF axis_pos(axis) = 2 THEN <<bdim, total>> ELSE <<total, bdim>>
    IN  Array(shape,
              [p \in 1..(bdim * total) |->
                  LET r == ((p - 1) \div shape[2]) + 1
                      c == ((p - 1) % shape[2]) + 1
                  IN  IF axis_pos(axis) = 2 THEN elem(r, c) ELSE elem(c, r)])

\* np.moveaxis(x, axis, -1) of a 2-d array: the transpose when axis is the first
moveaxis_last(x, axis) ==
    IF axis_pos(axis) = 2 THEN x
    ELSE Array(<<x.shape[2], x.shape[1]>>,
               [p \in 1..Len(x.data) |->
                   LET r == ((p - 1) \div x.shape[1]) + 1
                       c == ((p - 1) % x.shape[1]) + 1
                   IN  At(x, c, r)])

\* the k-th 1-d slice along the last axis, as np.apply_along_axis passes it
slice_last(x, k) == Array1([j \in 1..x.shape[2] |-> At(x, k, j)])

\* mutant: every sample is the whole of x
split_nowhere(x, split_indices, n_samp) ==
    [i \in 1..n_samp |-> Array1(x.data)]

\* mutant: the piece before the first index is left out
np_split_after_first(x, split_indices) ==
    LET cuts == split_indices \o <<Len(x.data), Len(x.data)>> IN
    [i \in 1..(Len(split_indices) + 1) |->
        Array1(SubSeq(x.data, cuts[i] + 1, cuts[i + 1]))]

\* np.split(x, split_indices) of a 1-d array: the pieces between consecutive
\* indices, one more than there are indices
np_split(x, split_indices) ==
    LET cuts == <<0>> \o split_indices \o <<Len(x.data)>> IN
    [i \in 1..(Len(split_indices) + 1) |->
        Array1(SubSeq(x.data, cuts[i] + 1, cuts[i + 1]))]

\* np.split(x, split_indices)[:n_samp]
split(x, split_indices, n_samp) ==
    SubSeq(np_split(x, split_indices), 1, n_samp)

\* ------------------------------------------------------ _check_empty_inputs
\* mutant: the output array is not multiplied by NaN
check_empty_inputs_ones(samples, axis) ==
    IF ~\E i \in 1..Len(samples) : size(samples[i]) = 0 THEN None
    ELSE LET output_shape == _broadcast_array_shapes(samples, axis) IN
         Array(output_shape, [p \in 1..Prod(output_shape) |-> 1])

\* mutant: the output has the length of the first sample's first dimension
check_empty_inputs_rows(samples, axis) ==
    IF ~\E i \in 1..Len(samples) : size(samples[i]) = 0 THEN None
    ELSE Array(<<samples[1].shape[1]>>,
               [p \in 1..samples[1].shape[1] |-> NaN])

\* None when no sample is empty, otherwise the NaN array of the output shape
_check_empty_inputs(samples, axis) ==
    IF ~\E i \in 1..Len(samples) : size(samples[i]) = 0 THEN None
    ELSE LET output_shape == _broadcast_array_shapes(samples, axis) IN
         Array(output_shape, [p \in 1..Prod(output_shape) |-> NaN])

\* ------------------------------------------------------------------ kernels
\* The functions decorated with _vectorize_hypotest_factory, with the
\* arguments of their decoration.
Kernels == {"epps_singleton_2samp", "cramervonmises", "cramervonmises_2samp"}

\* None of them has a parameter `axis`.  The factory also takes functions
\* that have one (line 169); WithAxis stands for such a function, of one
\* sample, decorated with the factory's default arguments:
\*     def kernel_with_axis(x, axis=0)
WithAxis == "kernel_with_axis"

params(k) ==
    CASE k = "epps_singleton_2samp" -> <<"x", "y", "t">>
      [] k = "cramervonmises"       -> <<"rvs", "cdf", "args">>
      [] k = "cramervonmises_2samp" -> <<"x", "y", "method">>
      [] k = WithAxis               -> <<"x", "axis">>

n_samples(k) ==
    CASE k = "epps_singleton_2samp" -> 2
      [] k = "cramervonmises"       -> 1
      [] k = "cramervonmises_2samp" -> 2
      [] k = WithAxis               -> 1

too_small(k) ==
    CASE k = "epps_singleton_2samp" -> 5
      [] k = "cramervonmises"       -> 1
      [] k = "cramervonmises_2samp" -> 1
      [] k = WithAxis               -> 0

\* mutant: the last axis is the default
default_axis_last(k) == IntV(-1)

\* paired and default_axis are left at the factory's defaults by all three
paired(k) == FALSE
default_axis(k) == IntV(0)

\* parameters that have no default value
required(k) ==
    CASE k = "epps_singleton_2samp" -> {"x", "y"}
      [] k = "cramervonmises"       -> {"rvs", "cdf"}
      [] k = "cramervonmises_2samp" -> {"x", "y"}
      [] k = WithAxis               -> {"x"}

\* default values of the parameters that have one (t counted in tenths:
\* t=(0.4, 0.8))
defaults(k) ==
    CASE k = "epps_singleton_2samp" -> [t |-> Array(<<2>>, <<4, 8>>)]
      [] k = "cramervonmises"       -> [args |-> Array(<<0>>, <<>>)]
      [] k = "cramervonmises_2samp" -> [method |-> StrV("auto")]
      [] k = WithAxis               -> [axis |-> IntV(0)]

Seq2Set(s) == {s[i] : i \in 1..Len(s)}

\* np.sort of a 1-d sequence (NaN sorts last)
le(a, b) == isnan(b) \/ (~isnan(a) /\ a <= b)
RECURSIVE insert(_, _)
insert(v, s) ==
    IF s = <<>> THEN <<v>>
    ELSE IF le(v, s[1]) THEN <<v>> \o s ELSE <<s[1]>> \o insert(v, Tail(s))
RECURSIVE sort(_)
sort(s) == IF s = <<>> THEN <<>> ELSE insert(s[1], sort(Tail(s)))

\* One field of a result.  NaNField is np.nan; a computed field is the term
\* "this field of this kernel on these data with these parameters".
NaNField == [nan |-> TRUE]
Computed(k, fld, data, par) ==
    [nan |-> FALSE, kernel |-> k, field |-> fld, data |-> data, par |-> par]

\* result_object(statistic, pvalue), the fields being arrays of `shape`
\* (<<>> for a scalar result), flattened
result_object(shape, statistic, pvalue) ==
    [shape |-> shape, statistic |-> statistic, pvalue |-> pvalue]
NaNResult == result_object(<<>>, <<NaNField>>, <<NaNField>>)
KernelResult(k, data, par) ==
    result_object(<<>>, <<Computed(k, "statistic", data, par)>>,
                        <<Computed(k, "pvalue", data, par)>>)

\* epps_singleton_2samp(x, y, t)
epps_singleton_2samp(b) ==
    LET x == b["x"]  y == b["y"]  t == b["t"] IN
    IF ndim(x) > 1 THEN Raise("ValueError", "kernel")
    ELSE IF ndim(y) > 1 THEN Raise("ValueError", "kernel")
    ELSE IF len(x) < 5 \/ len(y) < 5 THEN Raise("ValueError", "kernel")
    ELSE IF contains_nan_value(x) THEN Raise("ValueError", "kernel")
    ELSE IF contains_nan_value(y) THEN Raise("ValueError", "kernel")
    ELSE IF ndim(t) > 1 THEN Raise("ValueError", "kernel")
    ELSE IF \E j \in 1..Len(t.data) : t.data[j] <= 0
         THEN Raise("ValueError", "kernel")
    \* line 393: len(t) of a 0-d array
    ELSE IF ndim(t) = 0 THEN Raise("TypeError", "kernel")
    ELSE Ok(KernelResult("epps_singleton_2samp", <<x.data, y.data>>, [t |-> t]))

\* cramervonmises(rvs, cdf, args)
cramervonmises(b) ==
    LET vals == Array(b["rvs"].shape, sort(b["rvs"].data)) IN
    IF size(vals) <= 1 THEN Raise("ValueError", "kernel")
    ELSE IF ndim(vals) > 1 THEN Raise("ValueError", "kernel")
    ELSE Ok(KernelResult("cramervonmises", <<vals.data>>,
                         [cdf |-> b["cdf"], args |-> b["args"]]))

\* cramervonmises_2samp(x, y, method)
cramervonmises_2samp(b) ==
    LET xa == Array(b["x"].shape, sort(b["x"].data))
        ya == Array(b["y"].shape, sort(b["y"].data))
        method == b["method"]
    IN
    IF size(xa) <= 1 \/ size(ya) <= 1 THEN Raise("ValueError", "kernel")
    ELSE IF ndim(xa) > 1 \/ ndim(ya) > 1 THEN Raise("ValueError", "kernel")
    ELSE IF method \notin {StrV("auto"), StrV("exact"), StrV("asymptotic")}
         THEN Raise("ValueError", "kernel")
    ELSE LET used == IF method = StrV("auto")
                     THEN (IF Max({len(xa), len(ya)}) > 10
                           THEN StrV("asymptotic") ELSE StrV("exact"))
                     ELSE method
         IN  Ok(KernelResult("cramervonmises_2samp", <<xa.data, ya.data>>,
                             [method |-> used]))

\* kernel_with_axis(x, axis): the function computes along `axis` by itself,
\* one statistic and one pvalue for each slice of x along that axis
kernel_with_axis(b) ==
    LET xx == b["x"] IN
    IF ndim(xx) <= 1
    THEN Ok(KernelResult(WithAxis, <<xx.data>>, <<>>))
    ELSE LET xm == moveaxis_last(xx, b["axis"].int) IN
         Ok(result_object(<<xm.shape[1]>>,
                [s \in 1..xm.shape[1] |->
                    Computed(WithAxis, "statistic", <<slice_last(xm, s).data>>, <<>>)],
                [s \in 1..xm.shape[1] |->
                    Computed(WithAxis, "pvalue", <<slice_last(xm, s).data>>, <<>>)]))

\* hypotest_fun_in(*samples, **kwds): Python binds the positional samples to
\* the leading parameters and the keywords by name, fills in the defaults,
\* and runs the kernel's body
hypotest_fun_in(k, samples, kwds) ==
    LET P       == params(k)
        byPos   == {P[i] : i \in 1..Len(samples)}
        given   == byPos \cup DOMAIN kwds
        bound   == [p \in Seq2Set(P) |->
                      IF p \in byPos
                      THEN samples[CHOOSE i \in 1..Len(samples) : P[i] = p]
                      ELSE IF p \in DOMAIN kwds THEN kwds[p]
                      ELSE IF p \in DOMAIN defaults(k) THEN defaults(k)[p]
                      ELSE None]
    IN
    IF \/ Len(samples) > Len(P)
       \/ DOMAIN kwds \cap byPos # {}
       \/ ~(DOMAIN kwds \subseteq Seq2Set(P))
       \/ ~(required(k) \subseteq given)
    THEN Raise("TypeError", "kernel")
    ELSE CASE k = "epps_singleton_2samp" -> epps_singleton_2samp(bound)
           [] k = "cramervonmises"       -> cramervonmises(bound)
           [] k = "cramervonmises_2samp" -> cramervonmises_2samp(bound)
           [] k = WithAxis               -> kernel_with_axis(bound)

\* mutant: only a sample shorter than too_small is too small
is_too_small_strict(k, samples) ==
    \E i \in 1..Len(samples) : len(samples[i]) < too_small(k)

\* the factory's is_too_small(samples)
is_too_small(k, samples) ==
    \E i \in 1..Len(samples) : len(samples[i]) <= too_small(k)

\* ------------------------------------------- scipy.stats.stats._contains_nan
Policies == {StrV("propagate"), StrV("omit"), StrV("raise")}

\* whether `a` holds a NaN; under 'raise' a NaN is an error
_contains_nan(a, nan_policy) ==
    IF contains_nan_value(a) /\ nan_policy = StrV("raise")
    THEN Raise("ValueError", "_contains_nan")
    ELSE Ok(contains_nan_value(a))

\* ------------------------------------------------ vectorize_hypotest_wrapper
Unset == [unset |-> TRUE]
Min(a, b) == IF a < b THEN a ELSE b
Restrict(f, S) == [p \in S |-> f[p]]

\* the kernel is invoked: the log entry
Invocation(smp, k) == [samples |-> smp, kwds |-> k]

\* line 156: d_args = dict(zip(params, args))
zip_args(P, a) ==
    [p \in {P[j] : j \in 1..Min(Len(P), Len(a))} |->
        a[CHOOSE j \in 1..Min(Len(P), Len(a)) : P[j] = p]]

\* mutant: the check for duplicates looks at no argument
intersection_none(d_args, kws) == {}

\* line 157: intersection = set(d_args) & set(kwds)
intersection(d_args, kws) == DOMAIN d_args \cap DOMAIN kws

\* mutant: nan_policy is read but left among the keywords
normalize_keeps_nan_policy(k, a, kws) ==
    LET P      == params(k)
        n_samp == n_samples(k)
        d_args == zip_args(P, a)
        merged == [p \in DOMAIN kws \cup DOMAIN d_args |->
                      IF p \in DOMAIN d_args THEN d_args[p] ELSE kws[p]]
        names  == {P[j] : j \in 1..n_samp}
    IN
    IF intersection(d_args, kws) # {} THEN Raise("TypeError", "wrapper")
    ELSE IF ~(names \subseteq DOMAIN merged) THEN Raise("KeyError", "wrapper")
    ELSE Ok([samples |-> [j \in 1..n_samp |-> atleast_1d(merged[P[j]])],
             axis |-> IF "axis" \in DOMAIN merged THEN merged["axis"]
                      ELSE default_axis(k),
             nan_policy |-> IF "nan_policy" \in DOMAIN merged
                            THEN merged["nan_policy"] ELSE StrV("propagate"),
             kw |-> Restrict(merged, DOMAIN merged \ (names \cup {"axis"}))])

\* mutant: more positional arguments than parameters is a TypeError
normalize_too_many_args(k, a, kws) ==
    LET P      == params(k)
        n_samp == n_samples(k)
        d_args == zip_args(P, a)
        merged == [p \in DOMAIN kws \cup DOMAIN d_args |->
                      IF p \in DOMAIN d_args THEN d_args[p] ELSE kws[p]]
        names  == {P[j] : j \in 1..n_samp}
    IN
    IF Len(a) > Len(P) THEN Raise("TypeError", "wrapper")
    ELSE IF intersection(d_args, kws) # {} THEN Raise("TypeError", "wrapper")
    ELSE IF ~(names \subseteq DOMAIN merged) THEN Raise("KeyError", "wrapper")
    ELSE Ok([samples |-> [j \in 1..n_samp |-> atleast_1d(merged[P[j]])],
             axis |-> IF "axis" \in DOMAIN merged THEN merged["axis"]
                      ELSE default_axis(k),
             nan_policy |-> IF "nan_policy" \in DOMAIN merged
                            THEN merged["nan_policy"] ELSE StrV("propagate"),
             kw |-> Restrict(merged,
                        DOMAIN merged \ (names \cup {"axis", "nan_policy"}))])

\* lines 149-172: reconcile positional and keyword arguments, extract the
\* samples, axis and nan_policy.  The locals, or the exception raised.
normalize(k, a, kws) ==
    LET P      == params(k)
        n_samp == n_samples(k)
        d_args == zip_args(P, a)
        merged == [p \in DOMAIN kws \cup DOMAIN d_args |->
                      IF p \in DOMAIN d_args THEN d_args[p] ELSE kws[p]]
        names  == {P[j] : j \in 1..n_samp}
    IN
    IF intersection(d_args, kws) # {} THEN Raise("TypeError", "wrapper")
    ELSE IF ~(names \subseteq DOMAIN merged) THEN Raise("KeyError", "wrapper")
    ELSE Ok([samples |-> [j \in 1..n_samp |-> atleast_1d(merged[P[j]])],
             axis |-> IF "axis" \in DOMAIN merged THEN merged["axis"]
                      ELSE default_axis(k),
             nan_policy |-> IF "nan_policy" \in DOMAIN merged
                            THEN merged["nan_policy"] ELSE StrV("propagate"),
             kw |-> Restrict(merged,
                        DOMAIN merged \ (names \cup {"axis", "nan_policy"}))])

\* mutant: axis=None processes axis 0 of the samples as they are
ravel_if_none_as_is(smp, ax) ==
    [samples |-> smp, axis |-> IF ax = None THEN IntV(0) ELSE ax]

\* lines 174-176: axis=None flattens every sample and processes axis 0
ravel_if_none(smp, ax) ==
    IF ax = None
    THEN [samples |-> [j \in 1..Len(smp) |-> ravel(smp[j])], axis |-> IntV(0)]
    ELSE [samples |-> smp, axis |-> ax]

\* mutant: samples of any dimension count as 1-d when one of them is empty
all_1d_or_empty(smp) ==
    \/ \A j \in 1..Len(smp) : ndim(smp[j]) <= 1
    \/ \E j \in 1..Len(smp) : size(smp[j]) = 0

\* line 180: np.all(ndims <= 1)
all_1d(smp) == \A j \in 1..Len(smp) : ndim(smp[j]) <= 1

\* mutant: the loop looks for NaNs without passing on the caller's policy
contains_nans_default_policy(smp, policy, n) ==
    Ok([j \in 1..n |-> contains_nan_value(smp[j])])

\* lines 182-186: the list contains_nans, or the first exception of the loop
RECURSIVE contains_nans_of(_, _, _)
contains_nans_of(smp, policy, n) ==
    IF n = 0 THEN Ok(<<>>)
    ELSE LET prev == contains_nans_of(smp, policy, n - 1) IN
         IF ~prev.ok THEN prev
         ELSE LET c == _contains_nan(smp[n], policy) IN
              IF ~c.ok THEN c ELSE Ok(Append(prev.val, c.val))

\* What a step leaves in the arrays it was handed, one sequence of elements
\* per array.
\* mutant: the NaNs are overwritten in place
remove_nans_writes_in_place(samples, is_paired) ==
    [j \in 1..Len(samples) |->
        [t \in 1..Len(samples[j].data) |->
            IF isnan(samples[j].data[t]) THEN 0 ELSE samples[j].data[t]]]

\* lines 25 and 35: sample[mask] builds a new array, the samples given to
\* _remove_nans keep their elements
remove_nans_writes(samples, is_paired) ==
    [j \in 1..Len(samples) |-> samples[j].data]

\* mutant: the kernel clears the array it is given
kernel_writes_zeros(k, samples) ==
    [j \in 1..Len(samples) |-> [t \in 1..Len(samples[j].data) |-> 0]]

\* lines 358, 638, 1619-1620: np.asarray returns the array it is given and
\* np.sort a sorted copy of it; the kernels assign to no element of a sample
kernel_writes(k, samples) ==
    [j \in 1..Len(samples) |-> samples[j].data]

\* lines 167-206: the local samples are views of the caller's arrays
\* (np.atleast_1d, ravel) until _remove_nans replaces them by new arrays; the
\* elements of the caller's arrays when the fast path is left
fast_path_writes(k, smp, policy) ==
    LET contains_nans == contains_nans_of(smp, policy, Len(smp))
        any == \E j \in 1..Len(smp) : contains_nans.val[j]
        untouched == [j \in 1..Len(smp) |-> smp[j].data]
    IN
    IF ~contains_nans.ok THEN untouched
    ELSE IF any /\ policy = StrV("propagate") THEN untouched
    ELSE IF any /\ policy = StrV("omit")
    THEN remove_nans_writes(smp, paired(k))
    ELSE kernel_writes(k, smp)

\* lines 178-206, every sample being at most 1-d: [ret, called, samples],
\* what is returned or raised, the kernel invocations made, and the final
\* value of the local `samples`
fast_path(k, smp, policy, kwargs) ==
    LET contains_nans == contains_nans_of(smp, policy, Len(smp))
        any == \E j \in 1..Len(smp) : contains_nans.val[j]
    IN
    IF ~contains_nans.ok
    THEN [ret |-> contains_nans, called |-> <<>>, samples |-> smp]
    ELSE IF any /\ policy = StrV("propagate")
    THEN [ret |-> Ok(NaNResult), called |-> <<>>, samples |-> smp]
    ELSE LET removed == IF any /\ policy = StrV("omit")
                        THEN _remove_nans(smp, paired(k))
                        ELSE Ok(smp)
         IN  IF ~removed.ok
             THEN [ret |-> removed, called |-> <<>>, samples |-> smp]
             ELSE [ret |-> hypotest_fun_in(k, removed.val, kwargs),
                   called |-> <<Invocation(removed.val, kwargs)>>,
                   samples |-> removed.val]

\* the elements of an array as result fields
fields_of(a) ==
    [p \in 1..Len(a.data) |->
        IF isnan(a.data[p]) THEN NaNField
        ELSE [nan |-> FALSE, value |-> a.data[p]]]

\* lines 212-216: the result built from the output of _check_empty_inputs
empty_result(empty_output) ==
    result_object(empty_output.shape, fields_of(empty_output),
                  fields_of(empty_output))

\* mutant: no kernel is taken to handle an axis
vectorized_never(k) == FALSE

\* line 169: the kernel itself declares an `axis` parameter
vectorized(k) == "axis" \in Seq2Set(params(k))

\* mutant: the definition without NaN handling is always made
which_fun_plain(contains_nan, policy) == "plain"

\* lines 232-251: which of the three definitions of hypotest_fun is made
which_fun(contains_nan, policy) ==
    IF contains_nan /\ policy = StrV("omit") THEN "omit"
    ELSE IF contains_nan /\ policy = StrV("propagate") THEN "propagate"
    ELSE "plain"

\* mutant: the check of x does not pass on the caller's policy
contains_nan_of_x_default_policy(xx, policy) == Ok(contains_nan_value(xx))

\* lines 225-226: contains_nan, _ = _contains_nan(x, nan_policy)
contains_nan_of_x(xx, policy) == _contains_nan(xx, policy)

\* lines 218-253: [ret, called, x, split_indices, hyp]; ret is Unset when
\* the per-slice path is taken
concatenate(k, smp, ax, policy, kwargs) ==
    LET lengths == [j \in 1..Len(smp) |-> smp[j].shape[axis_pos(ax.int)]]
        xx == _broadcast_concatenate(smp, ax.int)
        contains_nan == contains_nan_of_x(xx, policy)
        nothing == [ret |-> Unset, called |-> <<>>, x |-> Unset,
                    split_indices |-> <<>>, hyp |-> "none"]
    IN
    IF ~contains_nan.ok THEN [nothing EXCEPT !.ret = contains_nan]
    ELSE IF vectorized(k) /\ ~contains_nan.val
    THEN [nothing EXCEPT
            !.ret = hypotest_fun_in(k, smp, kwargs @@ ("axis" :> ax)),
            !.called = <<Invocation(smp, kwargs @@ ("axis" :> ax))>>]
    ELSE [nothing EXCEPT
            !.split_indices = cumsum(lengths),
            !.hyp = which_fun(contains_nan.val, policy),
            !.x = moveaxis_last(xx, ax.int)]

\* mutant: the kernel is invoked a second time on every slice it is given
hypotest_fun_twice(k, which, xs, splits, kwargs) ==
    LET n_samp == n_samples(k)
        smp    == split(xs, splits, n_samp)
        given  == IF which = "omit" THEN _remove_nans(smp, paired(k)).val
                  ELSE smp
        short  == IF which = "omit" THEN is_too_small(k, given)
                  ELSE which = "propagate" /\ contains_nan_value(xs)
    IN  IF short THEN [ret |-> Ok(NaNResult), called |-> <<>>]
        ELSE [ret |-> hypotest_fun_in(k, given, kwargs),
              called |-> <<Invocation(given, kwargs),
                           Invocation(given, kwargs)>>]

\* lines 233-251: the three definitions of hypotest_fun(x).  [ret, called]:
\* what it returns or raises, and the kernel invocation it made, if any
hypotest_fun(k, which, xs, splits, kwargs) ==
    LET n_samp == n_samples(k)
        smp    == split(xs, splits, n_samp)
    IN
    IF which = "omit"
    THEN LET removed == _remove_nans(smp, paired(k)) IN
         IF ~removed.ok THEN [ret |-> removed, called |-> <<>>]
         ELSE IF is_too_small(k, removed.val)
         THEN [ret |-> Ok(NaNResult), called |-> <<>>]
         ELSE [ret |-> hypotest_fun_in(k, removed.val, kwargs),
               called |-> <<Invocation(removed.val, kwargs)>>]
    ELSE IF which = "propagate" /\ contains_nan_value(xs)
    THEN [ret |-> Ok(NaNResult), called |-> <<>>]
    ELSE [ret |-> hypotest_fun_in(k, smp, kwargs),
          called |-> <<Invocation(smp, kwargs)>>]

\* mutant: the two fields are unpacked in the other order
result_unpacker_swapped(r) ==
    <<[j \in 1..Len(r) |-> r[j].pvalue[1]],
      [j \in 1..Len(r) |-> r[j].statistic[1]]>>

\* result_unpacker(res): the statistic and the pvalue of every slice
result_unpacker(r) ==
    <<[j \in 1..Len(r) |-> r[j].statistic[1]],
      [j \in 1..Len(r) |-> r[j].pvalue[1]]>>

\* line 255: result_object(*result_unpacker(res))
assemble(r) ==
    result_object(<<Len(r)>>, result_unpacker(r)[1], result_unpacker(r)[2])

\* line 254: np.apply_along_axis over the first n slices, in order:
\* [ret, called], ret being the list of per-slice results or the first
\* exception
RECURSIVE apply_along_axis(_, _, _, _, _, _)
apply_along_axis(k, which, xm, splits, kwargs, n) ==
    IF n = 0 THEN [ret |-> Ok(<<>>), called |-> <<>>]
    ELSE LET prev == apply_along_axis(k, which, xm, splits, kwargs, n - 1) IN
         IF ~prev.ret.ok THEN prev
         ELSE LET r == hypotest_fun(k, which, slice_last(xm, n), splits, kwargs)
              IN  [ret |-> IF r.ret.ok THEN Ok(Append(prev.ret.val, r.ret.val))
                           ELSE r.ret,
                   called |-> prev.called \o r.called]

\* the whole of vectorize_hypotest_wrapper(*args, **kwds): [ret, called]
wrapper(k, a, kws) ==
    LET n == normalize(k, a, kws) IN
    IF ~n.ok THEN [ret |-> n, called |-> <<>>]
    ELSE
    LET r  == ravel_if_none(n.val.samples, n.val.axis)
        p  == n.val.nan_policy
        kk == n.val.kw
    IN
    IF all_1d(r.samples)
    THEN LET f == fast_path(k, r.samples, p, kk) IN
         [ret |-> f.ret, called |-> f.called]
    ELSE
    LET empty_output == _check_empty_inputs(r.samples, r.axis.int) IN
    IF empty_output # None
    THEN [ret |-> Ok(empty_result(empty_output)), called |-> <<>>]
    ELSE
    LET c == concatenate(k, r.samples, r.axis, p, kk) IN
    IF c.ret # Unset THEN [ret |-> c.ret, called |-> c.called]
    ELSE
    LET a2 == apply_along_axis(k, c.hyp, c.x, c.split_indices, kk,
                               c.x.shape[1])
    IN  [ret |-> IF a2.ret.ok THEN Ok(assemble(a2.ret.val)) ELSE a2.ret,
         called |-> a2.called]

\* ------------------------------------------------------------------- state
VARIABLES
    kernel,       \* the decorated function that is called
    args,         \* the call's positional arguments
    kwds,         \* the call's keyword arguments: name -> value
    pc,           \* position in vectorize_hypotest_wrapper
    samples,      \* local `samples`
    axis,         \* local `axis`
    nan_policy,   \* local `nan_policy`
    kw,           \* local `kwds` after the pops: what is left for the kernel
    x,            \* local `x`: the concatenated samples, axis moved last
    split_indices,\* local `split_indices`
    hyp,          \* the hypotest_fun defined: "omit", "propagate", "plain"
    ind,          \* the slice np.apply_along_axis is at
    res,          \* per-slice results collected by np.apply_along_axis
    calls,        \* every invocation of the kernel so far: [samples, kwds]
    path,         \* the branches taken so far
    out,          \* what the call returned or raised; Unset while running
    probe,        \* a helper applied on its own: its input and its value
    mem           \* the caller's sample arrays: parameter name -> elements

vars == <<kernel, args, kwds, pc, samples, axis, nan_policy, kw, x,
          split_indices, hyp, ind, res, calls, path, out, probe, mem>>

\* the position of parameter p in the kernel's signature
PosOf(p) == CHOOSE j \in 1..Len(params(kernel)) : params(kernel)[j] = p

\* the sample arrays the caller passes in a call, by parameter name
caller_arrays(k, a, kws) ==
    LET d_args == zip_args(params(k), a)
        names  == {params(k)[j] : j \in 1..n_samples(k)}
    IN  [p \in {q \in names : q \in DOMAIN d_args \cup DOMAIN kws} |->
            IF p \in DOMAIN d_args THEN d_args[p].data ELSE kws[p].data]

\* ------------------------------------------------------------------ actions
\* lines 149-172
Normalize ==
    /\ pc = "call"
    /\ LET n == normalize(kernel, args, kwds) IN
       IF ~n.ok
       THEN /\ out' = n
            /\ pc' = "done"
            /\ UNCHANGED <<samples, axis, nan_policy, kw>>
       ELSE /\ samples' = n.val.samples
            /\ axis' = n.val.axis
            /\ nan_policy' = n.val.nan_policy
            /\ kw' = n.val.kw
            /\ pc' = "ravel"
            /\ out' = out
    /\ path' = Append(path, "normalize")
    /\ UNCHANGED <<probe, mem, kernel, args, kwds, x, split_indices, hyp, ind, res, calls>>

\* lines 174-176
Ravel ==
    /\ pc = "ravel"
    /\ samples' = ravel_if_none(samples, axis).samples
    /\ axis' = ravel_if_none(samples, axis).axis
    /\ pc' = "dispatch"
    /\ UNCHANGED <<probe, mem, kernel, args, kwds, nan_policy, kw, x, split_indices, hyp,
                   ind, res, calls, path, out>>

\* lines 178-206: every sample is at most 1-d
FastPath ==
    /\ pc = "dispatch"
    /\ all_1d(samples)
    /\ LET f == fast_path(kernel, samples, nan_policy, kw) IN
       /\ out' = f.ret
       /\ calls' = calls \o f.called
       /\ samples' = f.samples
    /\ mem' = [p \in DOMAIN mem |->
                  fast_path_writes(kernel, samples, nan_policy)[PosOf(p)]]
    /\ pc' = "done"
    /\ path' = Append(path, "fast")
    /\ UNCHANGED <<probe, kernel, args, kwds, axis, nan_policy, kw, x, split_indices,
                   hyp, ind, res>>

\* lines 208-216: the guard against empty samples
CheckEmpty ==
    /\ pc = "dispatch"
    /\ ~all_1d(samples)
    /\ LET empty_output == _check_empty_inputs(samples, axis.int) IN
       IF empty_output # None
       THEN /\ out' = Ok(empty_result(empty_output))
            /\ pc' = "done"
       ELSE /\ pc' = "concat"
            /\ out' = out
    /\ path' = Append(path, "guard")
    /\ UNCHANGED <<probe, mem, kernel, args, kwds, samples, axis, nan_policy, kw, x,
                   split_indices, hyp, ind, res, calls>>

\* lines 218-253: concatenate, check for NaN, choose hypotest_fun
Concatenate ==
    /\ pc = "concat"
    /\ LET c == concatenate(kernel, samples, axis, nan_policy, kw) IN
       /\ calls' = calls \o c.called
       /\ IF c.ret # Unset
          THEN /\ out' = c.ret
               /\ pc' = "done"
               /\ UNCHANGED <<x, split_indices, hyp, ind, res>>
          ELSE /\ x' = c.x
               /\ split_indices' = c.split_indices
               /\ hyp' = c.hyp
               /\ ind' = 1
               /\ res' = <<>>
               /\ pc' = "apply"
               /\ out' = out
    /\ path' = Append(path, "concatenate")
    /\ UNCHANGED <<probe, mem, kernel, args, kwds, samples, axis, nan_policy, kw>>

\* line 254: np.apply_along_axis calls hypotest_fun on the next slice
ApplySlice ==
    /\ pc = "apply"
    /\ ind <= x.shape[1]
    /\ LET r == hypotest_fun(kernel, hyp, slice_last(x, ind), split_indices, kw)
       IN  /\ calls' = calls \o r.called
           /\ IF r.ret.ok
              THEN /\ res' = Append(res, r.ret.val)
                   /\ ind' = ind + 1
                   /\ UNCHANGED <<pc, out>>
              ELSE /\ out' = r.ret
                   /\ pc' = "done"
                   /\ UNCHANGED <<res, ind>>
    /\ UNCHANGED <<probe, mem, kernel, args, kwds, samples, axis, nan_policy, kw, x,
                   split_indices, hyp, path>>

\* line 255: every slice is done, the result is assembled
Assemble ==
    /\ pc = "apply"
    /\ ind > x.shape[1]
    /\ out' = Ok(assemble(res))
    /\ pc' = "done"
    /\ path' = Append(path, "assemble")
    /\ UNCHANGED <<probe, mem, kernel, args, kwds, samples, axis, nan_policy, kw, x,
                   split_indices, hyp, ind, res, calls>>

\* ------------------------------------------------------------------ inputs
\* The element at flat position j of the i-th sample of a call: distinct
\* numbers, so that the origin and order of every element can be followed.
Elem(i, j) == 100 * i + j

MkSample(i, shape, nans) ==
    Array(shape, [j \in 1..Prod(shape) |->
                     IF <<i, j>> \in nans THEN NaN ELSE Elem(i, j)])

\* 0-d scalars and vectors; matrices, among them the shape (0, 5)
Shapes1 == {<<>>} \cup {<<n>> : n \in 0..MaxLen}
Shapes2 == {<<r, c>> : r \in 0..MaxLen, c \in 0..MaxLen} \cup {<<0, 5>>}

\* the subsets of S with at most n elements
RECURSIVE UpTo(_, _)
UpTo(S, n) ==
    IF n = 0 THEN {{}}
    ELSE LET T == UpTo(S, n - 1) IN T \cup {t \cup {e} : t \in T, e \in S}

\* where the NaNs of a call may be: at most MaxNaNs positions <<i, j>>
\* (sample, flat index) of samples with the shapes sh
NaNSets(sh) ==
    UpTo({q \in (1..Len(sh)) \X (1..(MaxLen * MaxLen)) : q[2] <= Prod(sh[q[1]])},
         MaxNaNs)

\* the samples of one call: arrays of the shapes sh with NaNs at `nans`
MkSamples(sh, nans) == [i \in 1..Len(sh) |-> MkSample(i, sh[i], nans)]

\* the samples of one call are all at most 1-d or all 2-d
ShapeFamilies == {Shapes1, Shapes2}

\* the samples of a call given an integer axis must be broadcastable in the
\* dimension that is not processed
WellShaped(sh, ax) ==
    IF ax = None \/ (\A j \in 1..Len(sh) : Len(sh[j]) <= 1) THEN TRUE
    ELSE LET a == IF ax = Unset THEN 0 ELSE ax.int IN
         broadcastable({sh[j][other_pos(a)] : j \in 1..Len(sh)})

Axes == {IntV(a) : a \in -2..1} \cup {None}

\* values a caller passes for the parameters that are not samples
ParValues(k) ==
    CASE k = "epps_singleton_2samp" ->
            {<<>>, [t |-> Array(<<1>>, <<4>>)], [t |-> Array(<<1>>, <<0>>)]}
      [] k = "cramervonmises" ->
            {<<>>, [cdf |-> StrV("norm")],
             [cdf |-> StrV("norm"), args |-> Array(<<0>>, <<>>)]}
      [] k = "cramervonmises_2samp" ->
            {<<>>, [method |-> StrV("asymptotic")], [method |-> StrV("bogus")]}

\* the usual way to call: samples by position, the required parameters by
\* keyword
Canonical(k) ==
    CASE k = "epps_singleton_2samp" -> <<>>
      [] k = "cramervonmises"       -> [cdf |-> StrV("norm")]
      [] k = "cramervonmises_2samp" -> <<>>
      [] k = WithAxis               -> <<>>

\* A call: values `vals` for some of the kernel's parameters, the first
\* `nPos` of the parameters passed by position (one more than there are
\* parameters: an extra positional argument), those in `byKw` by keyword,
\* plus the options `opts` (axis, nan_policy)
MkArgs(k, vals, nPos) ==
    [j \in 1..nPos |-> IF j <= Len(params(k)) /\ params(k)[j] \in DOMAIN vals
                       THEN vals[params(k)[j]] ELSE StrV("extra")]
MkKwds(vals, byKw, opts) == Restrict(vals, byKw) @@ opts

Options(ax, pol) ==
    (IF ax = Unset THEN <<>> ELSE [axis |-> ax])
    @@ (IF pol = Unset THEN <<>> ELSE [nan_policy |-> pol])

ValsOf(k, ss, par) ==
    [p \in {params(k)[j] : j \in 1..n_samples(k)} |->
        ss[CHOOSE j \in 1..n_samples(k) : params(k)[j] = p]] @@ par

InitLocals ==
    /\ pc = "call"
    /\ samples = <<>>
    /\ axis = Unset
    /\ nan_policy = Unset
    /\ kw = <<>>
    /\ x = Unset
    /\ split_indices = <<>>
    /\ hyp = "none"
    /\ ind = 0
    /\ res = <<>>
    /\ calls = <<>>
    /\ path = <<>>
    /\ out = Unset
    /\ probe = Unset

\* calls in the usual style, over every set of samples, axis and nan_policy
\* given or left out
InitCanonical ==
    \E k \in Kernels, ax \in Axes \cup {Unset}, Shapes \in ShapeFamilies :
    \E sh \in [1..n_samples(k) -> Shapes] :
        /\ WellShaped(sh, ax)
        /\ \E nans \in NaNSets(sh), pol \in Policies \cup {Unset} :
            /\ kernel = k
            /\ args = MkSamples(sh, nans)
            /\ kwds = Canonical(k) @@ Options(ax, pol)

\* calls in every style, over vectors of length 2 without NaN
InitStyles ==
    \E k \in Kernels :
    \E par \in ParValues(k), nPos \in 0..(Len(params(k)) + 1),
       ax \in {Unset, IntV(0), None}, pol \in Policies \cup {Unset} :
    LET ss   == MkSamples([j \in 1..n_samples(k) |-> <<2>>], {})
        vals == ValsOf(k, ss, par)
    IN  \E byKw \in SUBSET DOMAIN vals :
            /\ kernel = k
            /\ args = MkArgs(k, vals, nPos)
            /\ kwds = MkKwds(vals, byKw, Options(ax, pol))

\* epps_singleton_2samp on samples long enough for it: two slices of MinObs
\* observations in each sample
InitEpps ==
    \E a \in -2..1, pol \in Policies :
    \E nans \in UpTo((1..2) \X (1..(2 * MinObs)), MaxNaNs) :
    LET shape == IF axis_pos(a) = 2 THEN <<2, MinObs>> ELSE <<MinObs, 2>> IN
        /\ kernel = "epps_singleton_2samp"
        /\ args = MkSamples(<<shape, shape>>, nans)
        /\ kwds = Options(IntV(a), pol)

\* calls of the function that has an `axis` parameter
InitWithAxis ==
    \E ax \in Axes \cup {Unset}, Shapes \in ShapeFamilies :
    \E sh \in [1..1 -> Shapes] :
    \E nans \in NaNSets(sh), pol \in Policies \cup {Unset} :
        /\ kernel = WithAxis
        /\ args = MkSamples(sh, nans)
        /\ kwds = Options(ax, pol)

Init == /\ InitLocals
        /\ (InitCanonical \/ InitStyles \/ InitEpps)
        /\ mem = caller_arrays(kernel, args, kwds)

Next == Normalize \/ Ravel \/ FastPath \/ CheckEmpty \/ Concatenate
        \/ ApplySlice \/ Assemble

Spec == Init /\ [][Next]_vars

\* N-d calls that give the kernel's other parameters, by position or by
\* keyword: two slices, long enough for the kernel
InitParams ==
    \E k \in Kernels, a \in {0, -1}, pol \in Policies, byPos \in BOOLEAN :
    \E par \in ParValues(k) \ {<<>>} :
    LET n     == IF k = "epps_singleton_2samp" THEN MinObs ELSE MaxLen
        shape == IF axis_pos(a) = 2 THEN <<2, n>> ELSE <<n, 2>>
    IN  \E nans \in UpTo((1..n_samples(k)) \X (1..(2 * n)), MaxNaNs) :
        LET ss   == MkSamples([j \in 1..n_samples(k) |-> shape], nans)
            vals == ValsOf(k, ss, par)
            all  == \A j \in 1..Len(params(k)) : params(k)[j] \in DOMAIN vals
        IN  /\ kernel = k
            /\ args = MkArgs(k, vals, IF byPos /\ all THEN Len(params(k))
                                      ELSE n_samples(k))
            /\ kwds = MkKwds(vals, IF byPos /\ all THEN {} ELSE DOMAIN par,
                             Options(IntV(a), pol))

\* calls that give the kernel's other parameters, 1-d and N-d, and calls of
\* the function that has an `axis` parameter
InitAnyParams ==
    /\ InitLocals
    /\ (InitStyles \/ InitParams \/ InitWithAxis)
    /\ mem = caller_arrays(kernel, args, kwds)

SpecParams == InitAnyParams /\ [][Next]_vars

\* the same calls, and those of the function that has an `axis` parameter
InitAnyKernel ==
    /\ InitLocals
    /\ (InitCanonical \/ InitWithAxis)
    /\ mem = caller_arrays(kernel, args, kwds)

SpecAnyKernel == InitAnyKernel /\ [][Next]_vars

\* ------------------------------------------- _remove_nans applied on its own
\* vectors of lengths up to MaxLen with NaNs anywhere
Vectors(i) ==
    UNION { { Array1([j \in 1..n |-> IF j \in nans THEN NaN ELSE Elem(i, j)]) :
                nans \in SUBSET (1..n) } : n \in 0..MaxLen }

InitRemoveNans ==
    /\ \E a \in Vectors(1), b \in Vectors(2), c \in Vectors(3) \cup {None},
          flag \in BOOLEAN :
          probe = [samples |-> IF c = None THEN <<a, b>> ELSE <<a, b, c>>,
                   paired |-> flag, ret |-> Unset]
    /\ pc = "_remove_nans"
    /\ kernel = "none"
    /\ args = <<>>
    /\ kwds = <<>>
    /\ samples = <<>>
    /\ axis = Unset
    /\ nan_policy = Unset
    /\ kw = <<>>
    /\ x = Unset
    /\ split_indices = <<>>
    /\ hyp = "none"
    /\ ind = 0
    /\ res = <<>>
    /\ calls = <<>>
    /\ path = <<>>
    /\ out = Unset
    /\ mem = [j \in 1..Len(probe.samples) |-> probe.samples[j].data]

\* lines 23-35: one call of _remove_nans(samples, paired)
CallRemoveNans ==
    /\ pc = "_remove_nans"
    /\ probe' = [probe EXCEPT !.ret = _remove_nans(probe.samples, probe.paired)]
    /\ pc' = "returned"
    /\ mem' = remove_nans_writes(probe.samples, probe.paired)
    /\ UNCHANGED <<kernel, args, kwds, samples, axis, nan_policy, kw, x,
                   split_indices, hyp, ind, res, calls, path, out>>

SpecRemoveNans == InitRemoveNans /\ [][CallRemoveNans]_vars

\* ------------------------------------------------------------- sanity
TypeOK ==
    /\ pc \in {"call", "ravel", "dispatch", "concat", "apply", "done"}
    /\ (pc = "done") <=> (out # Unset)

\* the steps of the state machine compute what the wrapper computes
StepsAgree ==
    pc = "done" =>
        /\ out = wrapper(kernel, args, kwds).ret
        /\ calls = wrapper(kernel, args, kwds).called

\* ------------------------------------------------- vocabulary of the claims
\* The call as the caller made it.
\* a parameter is bound by position and by keyword
Conflict ==
    \E j \in 1..Min(Len(args), Len(params(kernel))) :
        params(kernel)[j] \in DOMAIN kwds
IsGiven(p) == PosOf(p) <= Len(args) \/ p \in DOMAIN kwds
Given(p) == IF PosOf(p) <= Len(args) THEN args[PosOf(p)] ELSE kwds[p]
SampleNames == {params(kernel)[j] : j \in 1..n_samples(kernel)}
\* the call passes normalization: no conflict, every sample given
CallOK == ~Conflict /\ \A p \in SampleNames : IsGiven(p)
GivenAxis(a) == "axis" \in DOMAIN kwds /\ kwds["axis"] = a
GivenPolicy(p) == "nan_policy" \in DOMAIN kwds /\ kwds["nan_policy"] = StrV(p)
\* the kernel's own parameters the caller gave
GivenKw ==
    [p \in {q \in Seq2Set(params(kernel)) \ SampleNames : IsGiven(q)} |->
        Given(p)]

\* the samples the caller gave, scalars as 1-element vectors, and flattened
\* when axis=None
Flat(a) == Array(<<Len(a.data)>>, a.data)
AsGiven == [j \in 1..n_samples(kernel) |->
              LET a == Given(params(kernel)[j]) IN
              IF a.shape = <<>> THEN Flat(a) ELSE a]
Work == IF GivenAxis(None) THEN [j \in 1..Len(AsGiven) |-> Flat(AsGiven[j])]
        ELSE AsGiven
TheAxis == IF "axis" \in DOMAIN kwds /\ kwds["axis"] # None
           THEN kwds["axis"].int ELSE 0
OneD == \A j \in 1..Len(Work) : Len(Work[j].shape) <= 1
HasNaN(a) == \E t \in 1..Len(a.data) : a.data[t] = NaN
InputHasNaN == \E j \in 1..Len(Work) : HasNaN(Work[j])
SomeEmpty == \E j \in 1..Len(Work) : Len(Work[j].data) = 0

\* N-d calls: the processed dimension (1 or 2) of the shape, the other one,
\* and the number of axis-slices: the broadcast length of the other dimension
AxisDim == IF TheAxis \in {1, -1} THEN 2 ELSE 1
OtherDim == 3 - AxisDim
OtherLens == {Work[j].shape[OtherDim] : j \in 1..Len(Work)}
NumSlices == IF OneD THEN 1
             ELSE IF 0 \in OtherLens THEN 0 ELSE Max(OtherLens)
\* the s-th axis-slice of sample j (a sample of length 1 in the other
\* dimension is repeated in every slice)
SliceOf(j, s) ==
    IF OneD THEN Work[j]
    ELSE LET a  == Work[j]
             ss == IF a.shape[OtherDim] = 1 THEN 1 ELSE s
         IN  Array1([t \in 1..a.shape[AxisDim] |->
                        IF AxisDim = 2 THEN a.data[(ss - 1) * a.shape[2] + t]
                        ELSE a.data[(t - 1) * a.shape[2] + ss]])
Slice(s) == [j \in 1..Len(Work) |-> SliceOf(j, s)]
SliceHasNaN(s) == \E j \in 1..Len(Work) : HasNaN(SliceOf(j, s))

\* the result entry of slice s
IsNaNEntry(s) ==
    out.val.statistic[s] = NaNField /\ out.val.pvalue[s] = NaNField
InvokedOn(smp) == \E c \in 1..Len(calls) : calls[c].samples = smp

\* ------------------------------------------------------------------ claims
\* C1: a call that binds a parameter both by position and by keyword raises
\* TypeError from the wrapper, with no sample extracted, no nan_policy read
\* and no kernel invocation.
C1_ConflictRaisesFirst ==
    (Conflict /\ pc # "call") =>
        /\ pc = "done"
        /\ out = Raise("TypeError", "wrapper")
        /\ samples = <<>>
        /\ nan_policy = Unset
        /\ calls = <<>>
        /\ path = <<"normalize">>

C1_Witness == Conflict /\ pc = "done" /\ out = Raise("TypeError", "wrapper")

\* C2: under nan_policy='propagate', on the 1-d path and on the N-d path, the
\* kernel is never invoked on an axis-slice that holds a NaN (nor on any data
\* holding a NaN), and in the result the call returns the statistic and the
\* pvalue of every such slice are NaN.
C2_PropagateNaNSlices ==
    (GivenPolicy("propagate") /\ CallOK) =>
        /\ \A c \in 1..Len(calls) :
              \A j \in 1..Len(calls[c].samples) : ~HasNaN(calls[c].samples[j])
        /\ \A s \in 1..NumSlices :
              SliceHasNaN(s) =>
                  /\ ~InvokedOn(Slice(s))
                  /\ (pc = "done" /\ out.ok) => IsNaNEntry(s)

\* a returned N-d result with a NaN slice and a computed slice
C2_Witness ==
    /\ GivenPolicy("propagate") /\ CallOK /\ pc = "done" /\ out.ok
    /\ ~OneD
    /\ \E s, t \in 1..NumSlices :
          /\ SliceHasNaN(s) /\ IsNaNEntry(s)
          /\ ~SliceHasNaN(t) /\ ~IsNaNEntry(t) /\ InvokedOn(Slice(t))

\* NaN positions of a sample removed, the rest kept in order
NotNaN(v) == v # NaN
Strip(a) == Array1(SelectSeq(a.data, NotNaN))
Stripped(s) == [j \in 1..Len(Work) |-> Strip(SliceOf(j, s))]

\* what the kernel returns for each of the slice inputs F[1..n]; short[s]
\* marks the slices that get NaN without a kernel call: the array of the
\* per-slice results, or what the kernel raises on the first slice it fails
PerSlice(F, short) ==
    LET r == [s \in 1..Len(F) |->
                 IF short[s] THEN Ok(NaNResult)
                 ELSE hypotest_fun_in(kernel, F[s], GivenKw)]
    IN  IF \E s \in 1..Len(F) : ~r[s].ok
        THEN r[CHOOSE s \in 1..Len(F) :
                   ~r[s].ok /\ \A t \in 1..(s - 1) : r[t].ok]
        ELSE Ok(result_object(<<Len(F)>>,
                              [s \in 1..Len(F) |-> r[s].val.statistic[1]],
                              [s \in 1..Len(F) |-> r[s].val.pvalue[1]]))

\* C3 as stated: under nan_policy='omit', unpaired, the result equals what
\* the kernel returns on the samples (of each axis-slice) with their NaNs
\* removed independently.
C3_AsStated ==
    (GivenPolicy("omit") /\ CallOK /\ ~paired(kernel) /\ pc = "done") =>
        IF OneD THEN out = hypotest_fun_in(kernel, Stripped(1), GivenKw)
        ELSE out = PerSlice([s \in 1..NumSlices |-> Stripped(s)],
                            [s \in 1..NumSlices |-> FALSE])

\* a slice of an N-d call that the wrapper sets to NaN under 'omit': some
\* sample of the call is empty, or the input holds a NaN and a stripped
\* sample of the slice has length <= too_small
OmitShort(s) ==
    \/ SomeEmpty
    \/ /\ InputHasNaN
       /\ \E j \in 1..Len(Work) : Len(Stripped(s)[j].data) <= too_small(kernel)

\* C3 (amended): under nan_policy='omit', unpaired, a 1-d call gives what the
\* kernel gives on the independently stripped samples; in an N-d call the
\* entry of a slice is what the kernel returns on the stripped samples of
\* that slice, except that it is NaN, with no kernel call, when some sample
\* of the call is empty or when the input holds a NaN and a stripped sample
\* of the slice has length <= too_small.
C3_OmitUnpaired ==
    (GivenPolicy("omit") /\ CallOK /\ ~paired(kernel) /\ pc = "done") =>
        IF OneD
        THEN /\ out = hypotest_fun_in(kernel, Stripped(1), GivenKw)
             /\ calls = <<Invocation(Stripped(1), GivenKw)>>
        ELSE /\ out = PerSlice([s \in 1..NumSlices |-> Stripped(s)],
                               [s \in 1..NumSlices |-> OmitShort(s)])
             /\ \A c \in 1..Len(calls) :
                   \E s \in 1..NumSlices :
                       ~OmitShort(s) /\ calls[c].samples = Stripped(s)

\* an N-d call returns a result computed from samples that were stripped to
\* different lengths
C3_Witness ==
    /\ GivenPolicy("omit") /\ CallOK /\ pc = "done" /\ out.ok /\ ~OneD
    /\ \E s \in 1..NumSlices :
          /\ SliceHasNaN(s) /\ ~IsNaNEntry(s)
          /\ InvokedOn(Stripped(s))
          /\ Len(Stripped(s)) = 2
          /\ Len(Stripped(s)[1].data) # Len(Stripped(s)[2].data)

\* the indices of a paired call at which no sample holds a NaN, and the
\* p-th smallest of them
KeptIdx(smp) ==
    {t \in 1..Len(smp[1].data) :
        \A j \in 1..Len(smp) : smp[j].data[t] # NaN}
NthKept(smp, p) ==
    CHOOSE t \in KeptIdx(smp) :
        Cardinality({u \in KeptIdx(smp) : u < t}) = p - 1
EqualLengths(smp) ==
    \A j \in 1..Len(smp) : Len(smp[j].data) = Len(smp[1].data)
PairedCase ==
    /\ probe # Unset
    /\ pc = "returned"
    /\ probe.paired
    /\ EqualLengths(probe.samples)

\* C4: _remove_nans with paired=True on equal-length samples removes from
\* every sample exactly the indices at which some sample is NaN: all filtered
\* samples have the same length, and position p of every filtered sample
\* holds that sample's element of the p-th retained index.
C4_PairedMask ==
    PairedCase =>
        /\ probe.ret.ok
        /\ Len(probe.ret.val) = Len(probe.samples)
        /\ \A j \in 1..Len(probe.samples) :
              /\ Len(probe.ret.val[j].data) = Cardinality(KeptIdx(probe.samples))
              /\ \A p \in 1..Cardinality(KeptIdx(probe.samples)) :
                    probe.ret.val[j].data[p] =
                        probe.samples[j].data[NthKept(probe.samples, p)]

\* two samples with NaNs at different indices, and an index kept after one
\* that is dropped
C4_Witness ==
    /\ PairedCase
    /\ \E t, u, v \in 1..Len(probe.samples[1].data) :
          /\ t # u /\ t < v /\ u < v
          /\ probe.samples[1].data[t] = NaN /\ probe.samples[2].data[t] # NaN
          /\ probe.samples[2].data[u] = NaN /\ probe.samples[1].data[u] # NaN
          /\ v \in KeptIdx(probe.samples)
    /\ probe.ret.ok

\* C5: on the 1-d fast path with nan_policy='raise', a NaN in any sample
\* makes the call fail with the ValueError of the NaN check; the kernel is
\* never invoked and no result is returned.
C5_RaiseOnFastPath ==
    (GivenPolicy("raise") /\ CallOK /\ OneD /\ InputHasNaN) =>
        /\ calls = <<>>
        /\ pc = "done" => out = Raise("ValueError", "_contains_nan")
        /\ pc = "done" => path = <<"normalize", "fast">>

C5_Witness ==
    /\ GivenPolicy("raise") /\ CallOK /\ OneD /\ InputHasNaN
    /\ pc = "done"
    /\ out = Raise("ValueError", "_contains_nan")
    /\ Len(Work) = 2 /\ ~HasNaN(Work[1]) /\ HasNaN(Work[2])

AllNaN(n) ==
    /\ out.val.shape = <<n>>
    /\ out.val.statistic = [s \in 1..n |-> NaNField]
    /\ out.val.pvalue = [s \in 1..n |-> NaNField]

\* C7: on the N-d path (integer axis, samples whose other dimension
\* broadcasts), when any sample has size 0 the wrapper returns a result whose
\* statistic and pvalue are NaN-filled arrays of the broadcast shape of the
\* samples' non-axis dimension, without raising and without invoking the
\* kernel, whatever the axis and the nan_policy.
C7_EmptyGivesNaN ==
    (CallOK /\ ~OneD /\ SomeEmpty) =>
        /\ calls = <<>>
        /\ pc = "done" =>
              /\ out.ok
              /\ AllNaN(NumSlices)
              /\ path = <<"normalize", "guard">>

\* an empty sample next to one that has three slices and a NaN, under 'raise'
C7_Witness ==
    /\ CallOK /\ ~OneD /\ SomeEmpty /\ pc = "done"
    /\ GivenPolicy("raise") /\ InputHasNaN
    /\ out.ok /\ AllNaN(3)

\* the first sample of the call has shape (0, 5)
EmptyRows == CallOK /\ AsGiven[1].shape = <<0, 5>>

\* C8 as stated: for a sample x of shape (0,5) the wrapper returns, for any
\* axis and any nan_policy, a result whose fields have shape (0,) and are
\* filled with NaN, and raises nothing.
C8_AsStated ==
    (EmptyRows /\ pc = "done") => (out.ok /\ AllNaN(0))

\* C8 (amended): for a sample x of shape (0,5) and an integer axis the
\* wrapper returns, without raising and without invoking the kernel, a
\* NaN-filled result of shape (0,) when axis is 1 or -1 and of shape (5,) when
\* axis is 0 (the default) or -2; with axis=None the sample is flattened to
\* an empty vector, the guard does not run and the call takes the 1-d fast
\* path, where it raises unless the NaN policy returns the scalar NaN result.
C8_EmptyRows ==
    (EmptyRows /\ pc = "done") =>
        IF GivenAxis(None)
        THEN /\ path = <<"normalize", "fast">>
             /\ out.ok => (out.val = NaNResult /\ calls = <<>>)
        ELSE /\ out.ok
             /\ calls = <<>>
             /\ path = <<"normalize", "guard">>
             /\ AllNaN(IF TheAxis \in {1, -1} THEN 0 ELSE 5)

\* axis 0 or -2: five NaN entries, no kernel invocation
C8_Witness ==
    /\ EmptyRows /\ pc = "done" /\ ~GivenAxis(None)
    /\ TheAxis \in {0, -2}
    /\ out.ok /\ AllNaN(5) /\ calls = <<>>

\* the call made with every sample flattened and axis=0 in place of axis=None
FlatArgs ==
    [j \in 1..Len(args) |->
        IF j <= n_samples(kernel) /\ IsArray(args[j]) THEN Flat(args[j])
        ELSE args[j]]
FlatKwds ==
    [p \in DOMAIN kwds |->
        IF p \in SampleNames /\ IsArray(kwds[p]) THEN Flat(kwds[p])
        ELSE IF p = "axis" THEN IntV(0) ELSE kwds[p]]

\* C9: a call with axis=None gives the same outcome (result or exception,
\* and the same kernel invocations) as the call with every sample flattened
\* and axis=0; it takes the 1-d fast path and never the guard or the
\* per-slice machinery, even when the samples given were N-d.
C9_AxisNoneFlattens ==
    (GivenAxis(None) /\ pc = "done") =>
        /\ out = wrapper(kernel, FlatArgs, FlatKwds).ret
        /\ calls = wrapper(kernel, FlatArgs, FlatKwds).called
        /\ CallOK => path = <<"normalize", "fast">>

\* a computed result from 2-d samples of more than one row and column
C9_Witness ==
    /\ GivenAxis(None) /\ pc = "done" /\ CallOK
    /\ \E j \in 1..Len(AsGiven) :
          /\ Len(AsGiven[j].shape) = 2
          /\ AsGiven[j].shape[1] > 1 /\ AsGiven[j].shape[2] > 1
    /\ out.ok /\ out.val # NaNResult
    /\ Len(calls) = 1

\* what calling the kernel directly gives: on the samples of a 1-d call, on
\* each axis-slice of an N-d call
Direct ==
    IF OneD THEN hypotest_fun_in(kernel, Work, GivenKw)
    ELSE PerSlice([s \in 1..NumSlices |-> Slice(s)],
                  [s \in 1..NumSlices |-> FALSE])

\* C10 as stated: for samples without NaN the output equals that of calling
\* the kernel directly on the samples (N-d: on each axis-slice) with the
\* same keyword parameters, whatever the nan_policy.
C10_AsStated ==
    (CallOK /\ ~InputHasNaN /\ pc = "done") => out = Direct

\* C10 (amended): for samples without NaN the output is the same for every
\* nan_policy and equals that of calling the kernel directly on the samples
\* (N-d: on each axis-slice), except on the N-d path when some sample is
\* empty: the output is then the NaN-filled result of the guard and the
\* kernel is not called.
C10_NoNaNDirect ==
    (CallOK /\ ~InputHasNaN /\ pc = "done") =>
        IF ~OneD /\ SomeEmpty
        THEN out.ok /\ AllNaN(NumSlices) /\ calls = <<>>
        ELSE /\ out = Direct
             /\ OneD => calls = <<Invocation(Work, GivenKw)>>
             /\ (~OneD /\ out.ok) =>
                   calls = [s \in 1..NumSlices |-> Invocation(Slice(s), GivenKw)]

\* under 'omit', an N-d call of a two-sample kernel returns the entries the
\* kernel computes on three slices
C10_Witness ==
    /\ CallOK /\ ~InputHasNaN /\ pc = "done" /\ ~OneD
    /\ GivenPolicy("omit")
    /\ n_samples(kernel) = 2
    /\ NumSlices = 3
    /\ out.ok /\ out = Direct
    /\ \A s \in 1..NumSlices : ~IsNaNEntry(s)


\* slice s of an N-d call holds a sample of length <= too_small
Undersized(s) ==
    \E j \in 1..Len(Work) : Len(SliceOf(j, s).data) <= too_small(kernel)

\* C11 as stated: when the input is not 1-d, an axis-slice in which some
\* sample has length <= too_small never makes the call raise; its entry in the
\* result is NaN, under every nan_policy and with or without NaN in the input.
\* When the input is 1-d the undersized samples go to the kernel, which raises.
\* (A call refused under 'raise' for its NaN is left aside.)
C11_AsStated ==
    (/\ CallOK /\ pc = "done"
     /\ ~(GivenPolicy("raise") /\ InputHasNaN)
     /\ \E s \in 1..NumSlices : Undersized(s)) =>
        IF OneD
        THEN out.ok => out.val = NaNResult
        ELSE /\ out.ok
             /\ \A s \in 1..NumSlices : Undersized(s) => IsNaNEntry(s)


\* entry s of the result is that of slice s: NaN, or the two fields the
\* kernel computes on the samples of slice s (as they are, or stripped of NaN)
EntryOfSlice(s) ==
    \/ IsNaNEntry(s)
    \/ \E X \in {Slice(s), Stripped(s)} :
          LET r == hypotest_fun_in(kernel, X, GivenKw) IN
          /\ r.ok
          /\ out.val.statistic[s] = r.val.statistic[1]
          /\ out.val.pvalue[s] = r.val.pvalue[1]

\* C12: on the N-d path each field of a returned result is an array of the
\* broadcast shape of the samples with the processed axis removed, holding
\* one entry per axis-slice, the statistic and the pvalue of that slice; for
\* the default unpacker (epps_singleton_2samp) and for the unpacker the
\* Cramer-von Mises tests supply.
C12_FieldShapes ==
    (CallOK /\ ~OneD /\ pc = "done" /\ out.ok) =>
        /\ out.val.shape = <<NumSlices>>
        /\ Len(out.val.statistic) = NumSlices
        /\ Len(out.val.pvalue) = NumSlices
        /\ \A s \in 1..NumSlices : EntryOfSlice(s)

\* the default unpacker on two computed slices
C12_Witness ==
    /\ CallOK /\ ~OneD /\ pc = "done" /\ out.ok
    /\ kernel = "epps_singleton_2samp"
    /\ path = <<"normalize", "guard", "concatenate", "assemble">>
    /\ NumSlices = 2
    /\ ~IsNaNEntry(1) /\ ~IsNaNEntry(2)
    /\ out.val.statistic[1] # out.val.statistic[2]


MaxCalls == 3

InitCalls ==
    /\ \E k \in Kernels :
       \E sh \in [1..n_samples(k) -> {<<n>> : n \in 0..MaxLen}] :
       \E nans \in NaNSets(sh) :
          /\ kernel = k
          /\ mem = [p \in {params(k)[j] : j \in 1..n_samples(k)} |->
                       MkSample(PosOf(p), sh[PosOf(p)], nans).data]
    /\ probe = [hist |-> <<>>]
    /\ pc = "idle"
    /\ args = <<>>
    /\ kwds = <<>>
    /\ samples = <<>>
    /\ axis = Unset
    /\ nan_policy = Unset
    /\ kw = <<>>
    /\ x = Unset
    /\ split_indices = <<>>
    /\ hyp = "none"
    /\ ind = 0
    /\ res = <<>>
    /\ calls = <<>>
    /\ path = <<>>
    /\ out = Unset

\* lines 134-206: one whole call on the fast path, the caller's arrays passed
\* by position
CallFastPath ==
    /\ pc = "idle"
    /\ Len(probe.hist) < MaxCalls
    /\ \E ax \in {IntV(0), None}, pol \in Policies :
       LET a   == [j \in 1..n_samples(kernel) |->
                      Array1(mem[params(kernel)[j]])]
           kws == Canonical(kernel) @@ Options(ax, pol)
           r   == wrapper(kernel, a, kws)
       IN  /\ probe' = [hist |-> Append(probe.hist,
                                        [kwds |-> kws, ret |-> r.ret])]
           /\ calls' = calls \o r.called
           /\ mem' = [p \in DOMAIN mem |->
                         fast_path_writes(kernel, a, pol)[PosOf(p)]]
    /\ UNCHANGED <<kernel, args, kwds, pc, samples, axis, nan_policy, kw, x,
                   split_indices, hyp, ind, res, path, out>>

SpecCalls == InitCalls /\ [][CallFastPath]_vars

InSlice(j, t, s) ==
    LET a == Work[j] IN
    \/ a.shape[OtherDim] = 1
    \/ s = (IF AxisDim = 2 THEN ((t - 1) \div a.shape[2]) + 1
            ELSE ((t - 1) % a.shape[2]) + 1)

\* the positional arguments of the call with element t of sample j set to v
Variant(j, t, v) ==
    [args EXCEPT ![j] = [@ EXCEPT !.data = [@ EXCEPT ![t] = v]]]

\* a value no sample of the call holds
Other == Elem(9, 99)

\* C15 as stated: on the N-d path under 'propagate' or 'omit', the entry of
\* the result for one axis-slice depends only on that slice's data, the
\* nan_policy and the kernel parameters: whenever a value held in another
\* slice is changed (to another number or to NaN, shapes unchanged) and the
\* call still returns a result, the entry is the same.
C15_AsStated ==
    (/\ CallOK /\ ~OneD /\ pc = "done" /\ out.ok
     /\ (GivenPolicy("propagate") \/ GivenPolicy("omit"))
     /\ Len(args) >= n_samples(kernel)) =>
        \A s \in 1..NumSlices, j \in 1..Len(Work) :
            \A t \in 1..Len(Work[j].data), v \in {NaN, Other} :
                ~InSlice(j, t, s) =>
                    LET r == wrapper(kernel, Variant(j, t, v), kwds).ret IN
                    r.ok => /\ r.val.statistic[s] = out.val.statistic[s]
                            /\ r.val.pvalue[s] = out.val.pvalue[s]


\* the call made again with one more keyword argument
WithKeyword(name, v) == wrapper(kernel, args, kwds @@ (name :> v))

\* C16: a call that gives no nan_policy has the outcome (and makes the kernel
\* invocations) of the same call with nan_policy='propagate', and a call that
\* gives no axis those of the same call with axis=0, the default_axis of
\* epps_singleton_2samp, cramervonmises and cramervonmises_2samp.
C16_Defaults ==
    pc = "done" =>
        /\ "nan_policy" \notin DOMAIN kwds =>
              /\ out = WithKeyword("nan_policy", StrV("propagate")).ret
              /\ calls = WithKeyword("nan_policy", StrV("propagate")).called
        /\ "axis" \notin DOMAIN kwds =>
              /\ out = WithKeyword("axis", IntV(0)).ret
              /\ calls = WithKeyword("axis", IntV(0)).called

\* neither is given: the columns of a 3 x 2 sample are processed, the one
\* with a NaN gives NaN, the other is computed
C16_Witness ==
    /\ pc = "done" /\ CallOK
    /\ "nan_policy" \notin DOMAIN kwds /\ "axis" \notin DOMAIN kwds
    /\ AsGiven[1].shape = <<3, 2>>
    /\ out.ok /\ out.val.shape = <<2>>
    /\ \E s, t \in 1..2 :
          /\ SliceHasNaN(s) /\ IsNaNEntry(s)
          /\ ~IsNaNEntry(t) /\ InvokedOn(Slice(t))


\* the NaN policy step of the fast path ends the call by itself: a NaN under
\* 'propagate' (also the default) or under 'raise'
PolicyEndsCall ==
    /\ InputHasNaN
    /\ ~GivenPolicy("omit")

\* C17: the guard against empty samples runs only when some sample has more
\* than one dimension, and then before any NaN detection.  When every
\* sample is at most 1-d, an empty sample never becomes a NaN result of the
\* guard: unless the NaN policy step ends the call, the samples (stripped
\* under 'omit') are passed to the kernel, whose own error is raised.
C17_GuardOnlyForNd ==
    (CallOK /\ pc = "done") =>
        IF OneD
        THEN /\ path = <<"normalize", "fast">>
             /\ (SomeEmpty /\ ~PolicyEndsCall) =>
                   /\ calls = <<Invocation(Stripped(1), GivenKw)>>
                   /\ ~out.ok /\ out.by = "kernel"
        ELSE /\ Len(path) >= 2 /\ path[2] = "guard"
             /\ \A c \in 1..Len(path) : path[c] # "fast"
             /\ SomeEmpty => (path = <<"normalize", "guard">> /\ out.ok)

\* an empty vector next to one with a NaN, under 'omit': the kernel is called
\* and raises
C17_Witness ==
    /\ CallOK /\ pc = "done" /\ OneD /\ SomeEmpty
    /\ GivenPolicy("omit") /\ InputHasNaN
    /\ Len(calls) = 1
    /\ out = Raise("ValueError", "kernel")


\* some sample of slice s, stripped of its NaNs, has length <= too_small
StrippedShort(s) ==
    \E j \in 1..Len(Work) : Len(Stripped(s)[j].data) <= too_small(kernel)

\* the N-d call reaches the per-slice functions of 'omit': no sample is
\* empty and the concatenated input holds a NaN
OmitPerSlice ==
    /\ CallOK /\ ~OneD /\ ~SomeEmpty
    /\ GivenPolicy("omit") /\ InputHasNaN

\* C18: on the N-d path under nan_policy='omit' with a NaN in the
\* concatenated input, the kernel is never invoked on an axis-slice in which
\* a NaN-filtered sample has length <= too_small, and that slice's entry is
\* all NaN; on every other slice the kernel is invoked with the filtered
\* samples (the slices are taken in order; an exception of the kernel ends
\* the call at the slice that raised).
C18_OmitTooSmall ==
    OmitPerSlice =>
        /\ \A c \in 1..Len(calls) :
              \E s \in 1..NumSlices :
                  ~StrippedShort(s) /\ calls[c].samples = Stripped(s)
        /\ (pc = "done" /\ out.ok) =>
              /\ \A s \in 1..NumSlices :
                    IF StrippedShort(s) THEN IsNaNEntry(s)
                    ELSE InvokedOn(Stripped(s))
              /\ Len(calls) =
                    Cardinality({s \in 1..NumSlices : ~StrippedShort(s)})
        /\ (pc = "done" /\ ~out.ok) =>
              \E s \in 1..NumSlices :
                  /\ ~StrippedShort(s)
                  /\ out = hypotest_fun_in(kernel, Stripped(s), GivenKw)
                  /\ \A t \in 1..(s - 1) :
                        StrippedShort(t) \/ InvokedOn(Stripped(t))

\* one slice is left with exactly too_small observations and gets NaN, the
\* other is computed on its filtered samples
C18_Witness ==
    /\ OmitPerSlice /\ pc = "done" /\ out.ok
    /\ \E s, t \in 1..NumSlices :
          /\ \E j \in 1..Len(Work) :
                Len(Stripped(s)[j].data) = too_small(kernel)
          /\ IsNaNEntry(s) /\ ~InvokedOn(Stripped(s))
          /\ ~StrippedShort(t) /\ ~IsNaNEntry(t) /\ InvokedOn(Stripped(t))


\* --------------------------------- too_small against the kernels' own checks
\* A decorated kernel and is_too_small applied to the same NaN-free vectors,
\* of every length up to MaxObs.
MaxObs == 7

InitTooSmall ==
    /\ \E k \in Kernels :
       \E n \in [1..n_samples(k) -> 0..MaxObs] :
          /\ kernel = k
          /\ probe = [samples |-> [j \in 1..n_samples(k) |->
                                      Array1([t \in 1..n[j] |-> Elem(j, t)])],
                      too_small |-> Unset, ret |-> Unset]
    /\ pc = "is_too_small"
    /\ args = <<>>
    /\ kwds = <<>>
    /\ samples = <<>>
    /\ axis = Unset
    /\ nan_policy = Unset
    /\ kw = <<>>
    /\ x = Unset
    /\ split_indices = <<>>
    /\ hyp = "none"
    /\ ind = 0
    /\ res = <<>>
    /\ calls = <<>>
    /\ path = <<>>
    /\ out = Unset
    /\ mem = <<>>

\* lines 126-130: is_too_small(samples)
CallIsTooSmall ==
    /\ pc = "is_too_small"
    /\ probe' = [probe EXCEPT !.too_small = is_too_small(kernel, probe.samples)]
    /\ pc' = "kernel"
    /\ UNCHANGED <<kernel, args, kwds, samples, axis, nan_policy, kw, x,
                   split_indices, hyp, ind, res, calls, path, out, mem>>

\* the kernel itself called on the samples, its other parameters as usual
CallKernel ==
    /\ pc = "kernel"
    /\ probe' = [probe EXCEPT
                    !.ret = hypotest_fun_in(kernel, probe.samples,
                                            Canonical(kernel))]
    /\ pc' = "returned"
    /\ UNCHANGED <<kernel, args, kwds, samples, axis, nan_policy, kw, x,
                   split_indices, hyp, ind, res, calls, path, out, mem>>

SpecTooSmall == InitTooSmall /\ [][CallIsTooSmall \/ CallKernel]_vars

\* C19 as stated: for each decorated kernel, too_small is the largest sample
\* size the kernel itself rejects, so that is_too_small(samples) is true
\* exactly when the kernel raises for insufficient sample size.
C19_AsStated ==
    (pc = "returned" /\ probe # Unset) =>
        (probe.too_small <=> ~probe.ret.ok)


\* the keyword arguments the wrapper leaves for the kernel, and the
\* delegated invocation: the samples as they are, with axis=axis
RestKw == [p \in DOMAIN GivenKw \ {"axis"} |-> GivenKw[p]]
Delegation == Invocation(Work, RestKw @@ ("axis" :> IntV(TheAxis)))
ReceivesAxis == \E c \in 1..Len(calls) : "axis" \in DOMAIN calls[c].kwds
\* the signature of the kernel has a parameter named axis
HasAxisParam ==
    \E j \in 1..Len(params(kernel)) : params(kernel)[j] = "axis"

\* C20: on the N-d path (once past the guard and the NaN check) the wrapper
\* delegates to the kernel's own axis handling exactly when the kernel has an
\* `axis` parameter and the concatenated data holds no NaN: the kernel is
\* then called once, with the samples as they are and axis=axis.  When a NaN
\* is present, or the kernel has no `axis` parameter, the slices are
\* processed one by one and the kernel never receives `axis`.
C20_NativeAxis ==
    (CallOK /\ ~OneD) =>
        /\ ReceivesAxis =>
              /\ HasAxisParam /\ ~InputHasNaN
              /\ calls = <<Delegation>>
        /\ (pc = "done" /\ ~SomeEmpty) =>
              IF HasAxisParam /\ ~InputHasNaN
              THEN /\ calls = <<Delegation>>
                   /\ out = hypotest_fun_in(kernel, Work, Delegation.kwds)
                   /\ path = <<"normalize", "guard", "concatenate">>
              ELSE /\ ~ReceivesAxis
                   /\ \A c \in 1..Len(calls) :
                         \A j \in 1..Len(calls[c].samples) :
                             ndim(calls[c].samples[j]) = 1
                   /\ out.ok =>
                         path = <<"normalize", "guard", "concatenate",
                                  "assemble">>

\* the function with an `axis` parameter is handed a 2 x 3 sample and the
\* axis the caller gave
C20_Witness ==
    /\ CallOK /\ ~OneD /\ pc = "done"
    /\ kernel = WithAxis
    /\ Work[1].shape = <<2, 3>> /\ TheAxis = -1
    /\ calls = <<Delegation>>
    /\ out.ok /\ out.val.shape = <<2>>


\* C21: splitting undoes the concatenation.  For every axis-slice, cutting
\* the slice of the concatenated array at the cumulative sums of the
\* samples' lengths along the axis and keeping the first n_samp pieces gives
\* n_samp segments; segment j has the length of sample j along the axis and
\* holds the elements of the (broadcast) slice of sample j, in order, in the
\* order of the samples; the piece left out is empty.
C21_SplitRoundTrip ==
    (CallOK /\ pc \in {"apply", "done"} /\ x # Unset) =>
        /\ x.shape[1] = NumSlices
        /\ \A s \in 1..NumSlices :
              LET pieces == np_split(slice_last(x, s), split_indices)
                  kept   == split(slice_last(x, s), split_indices,
                                  n_samples(kernel))
              IN  /\ Len(kept) = n_samples(kernel)
                  /\ \A j \in 1..n_samples(kernel) :
                        /\ Len(kept[j].data) = Work[j].shape[AxisDim]
                        /\ kept[j] = SliceOf(j, s)
                  /\ Len(pieces) = n_samples(kernel) + 1
                  /\ pieces[n_samples(kernel) + 1] = Array1(<<>>)

\* two samples of different lengths along the axis, one of them broadcast,
\* cut out of the second slice
C21_Witness ==
    /\ CallOK /\ pc = "done" /\ x # Unset
    /\ n_samples(kernel) = 2
    /\ NumSlices = 2
    /\ Work[1].shape[AxisDim] = 2 /\ Work[2].shape[AxisDim] = 3
    /\ Work[1].shape[OtherDim] = 1 /\ Work[2].shape[OtherDim] = 2
    /\ split(slice_last(x, 2), split_indices, 2) = Slice(2)
    /\ split_indices = <<2, 5>>


\* an N-d call that reaches the per-slice functions
ManualPath == CallOK /\ ~OneD /\ x # Unset
\* the per-slice function defined for the call strips the NaNs ('omit' and
\* a NaN in the input) / looks for a NaN in the slice ('propagate' and a NaN
\* in the input)
StripsNaNs == GivenPolicy("omit") /\ InputHasNaN
\* slice s is set to NaN without a kernel call
ShortCircuited(s) ==
    IF StripsNaNs THEN StrippedShort(s)
    ELSE ~GivenPolicy("raise") /\ SliceHasNaN(s)
\* the samples the kernel is given for slice s
KernelInput(s) == IF StripsNaNs THEN Stripped(s) ELSE Slice(s)
\* how many invocations of the kernel were made on slice s
CallsOn(s) ==
    Cardinality({c \in 1..Len(calls) : calls[c].samples = KernelInput(s)})

\* C22: on the per-slice N-d path the kernel is invoked at most once per
\* axis-slice, and never on a slice that is set to NaN without a call, so
\* that there are never more invocations than slices; in a call that
\* returns a result it is invoked exactly once on each of the other slices
\* (an exception of the kernel ends the call at the slice that raised: the
\* slices before it were invoked once or set to NaN, those after it are not
\* processed).
C22_OncePerSlice ==
    ManualPath =>
        /\ Len(calls) <= NumSlices
        /\ \A c \in 1..Len(calls) :
              \E s \in 1..NumSlices : calls[c].samples = KernelInput(s)
        /\ \A s \in 1..NumSlices :
              /\ CallsOn(s) <= 1
              /\ ShortCircuited(s) => CallsOn(s) = 0
        /\ (pc = "done" /\ out.ok) =>
              /\ \A s \in 1..NumSlices :
                    ~ShortCircuited(s) => CallsOn(s) = 1
              /\ Len(calls) =
                    Cardinality({s \in 1..NumSlices : ~ShortCircuited(s)})
        /\ (pc = "done" /\ ~out.ok) =>
              \E s \in 1..NumSlices :
                  /\ ~ShortCircuited(s) /\ CallsOn(s) = 1
                  /\ \A t \in 1..(s - 1) :
                        CallsOn(t) = IF ShortCircuited(t) THEN 0 ELSE 1
                  /\ \A t \in (s + 1)..NumSlices : CallsOn(t) = 0

\* three slices: one is set to NaN and never reaches the kernel, each of the
\* other two is invoked once
C22_Witness ==
    /\ ManualPath /\ pc = "done" /\ out.ok
    /\ NumSlices = 3
    /\ Len(calls) = 2
    /\ \E s \in 1..3 :
          /\ ShortCircuited(s) /\ CallsOn(s) = 0 /\ IsNaNEntry(s)
          /\ \A t \in (1..3) \ {s} : ~ShortCircuited(t) /\ CallsOn(t) = 1


\* ------------------------------------------- the arrays of the guard's result
\* The result of lines 212-216 as objects in memory: `heap` maps an array
\* object to its elements, statistic and pvalue name the objects the two
\* fields of the result refer to (result_object keeps the references: a
\* namedtuple, or the attributes set at lines 415-416).
\* mutant: pvalue is bound to the same array as statistic
guard_arrays_no_copy(empty_output) ==
    [heap |-> <<empty_output.data>>, statistic |-> 1, pvalue |-> 1]

\* lines 214-216: statistic = empty_output; pvalue = empty_output.copy()
guard_arrays(empty_output) ==
    [heap |-> <<empty_output.data, empty_output.data>>,
     statistic |-> 1, pvalue |-> 2]

\* in-place writes the caller makes to the fields of the result
MaxWrites == 2

\* N-d calls in which a sample is empty
InitGuard ==
    /\ \E k \in Kernels, a \in -2..1 :
       \E sh \in [1..n_samples(k) -> Shapes2] :
          /\ WellShaped(sh, IntV(a))
          /\ \E j \in 1..n_samples(k) : Prod(sh[j]) = 0
          /\ kernel = k
          /\ probe = [samples |-> MkSamples(sh, {}), axis |-> a,
                      arrays |-> Unset, log |-> <<>>]
    /\ pc = "guard"
    /\ args = <<>>
    /\ kwds = <<>>
    /\ samples = <<>>
    /\ axis = Unset
    /\ nan_policy = Unset
    /\ kw = <<>>
    /\ x = Unset
    /\ split_indices = <<>>
    /\ hyp = "none"
    /\ ind = 0
    /\ res = <<>>
    /\ calls = <<>>
    /\ path = <<>>
    /\ out = Unset
    /\ mem = <<>>

\* lines 212-216: the guard returns its result
ReturnEmpty ==
    /\ pc = "guard"
    /\ LET empty_output == _check_empty_inputs(probe.samples, probe.axis) IN
       /\ empty_output # None
       /\ probe' = [probe EXCEPT !.arrays = guard_arrays(empty_output)]
       /\ out' = Ok(empty_result(empty_output))
    /\ pc' = "returned"
    /\ UNCHANGED <<mem, kernel, args, kwds, samples, axis, nan_policy, kw, x,
                   split_indices, hyp, ind, res, calls, path>>

\* the caller assigns to one element of one field: res.statistic[i] = 0
WriteField ==
    /\ pc = "returned"
    /\ Len(probe.log) < MaxWrites
    /\ \E f \in {"statistic", "pvalue"} :
       \E i \in 1..Len(probe.arrays.heap[probe.arrays[f]]) :
          probe' = [probe EXCEPT
                      !.arrays.heap[probe.arrays[f]][i] = 0,
                      !.log = Append(probe.log, [field |-> f, index |-> i])]
    /\ UNCHANGED <<mem, kernel, args, kwds, pc, samples, axis, nan_policy, kw,
                   x, split_indices, hyp, ind, res, calls, path, out>>

SpecGuard == InitGuard /\ [][ReturnEmpty \/ WriteField]_vars

\* the elements seen through field f of the result
FieldView(f) == probe.arrays.heap[probe.arrays[f]]
\* element i of field f was assigned to
Written(f, i) ==
    \E w \in 1..Len(probe.log) :
        probe.log[w].field = f /\ probe.log[w].index = i

\* C23: in the result the guard returns for an empty sample, statistic and
\* pvalue are distinct arrays: after any in-place assignments to elements
\* of the fields, every element of a field that was not itself assigned to
\* still holds the NaN it was returned with.
C23_FieldsDistinct ==
    pc = "returned" =>
        /\ probe.arrays.statistic # probe.arrays.pvalue
        /\ \A f \in {"statistic", "pvalue"} :
              /\ Len(FieldView(f)) = Len(out.val[f])
              /\ \A i \in 1..Len(FieldView(f)) :
                    FieldView(f)[i] = IF Written(f, i) THEN 0 ELSE NaN

\* an element of statistic was overwritten and the same element of pvalue
\* is still NaN
C23_Witness ==
    /\ pc = "returned"
    /\ Len(FieldView("statistic")) = 2
    /\ Written("statistic", 1) /\ ~Written("pvalue", 1)
    /\ FieldView("statistic")[1] = 0
    /\ FieldView("pvalue")[1] = NaN


\* the keywords of invocation c other than axis
OwnKw(c) ==
    [p \in DOMAIN calls[c].kwds \ {"axis"} |-> calls[c].kwds[p]]

\* C24: the kernel is never passed nan_policy, and is passed axis only when
\* the wrapper delegates to the kernel's own axis handling; every other
\* parameter of the kernel that the caller gave, by keyword or by position,
\* reaches the kernel with the caller's value under the parameter's name,
\* in every invocation on every path, and nothing else is passed.
C24_KeywordsForwarded ==
    CallOK =>
        \A c \in 1..Len(calls) :
            /\ "nan_policy" \notin DOMAIN calls[c].kwds
            /\ "axis" \in DOMAIN calls[c].kwds =>
                  /\ ~OneD /\ HasAxisParam /\ ~InputHasNaN
                  /\ calls = <<Delegation>>
            /\ OwnKw(c) = RestKw

\* an N-d call gives a parameter by position and nan_policy by keyword; the
\* kernel is invoked on each of two slices with that parameter by keyword
C24_Witness ==
    /\ CallOK /\ pc = "done" /\ ~OneD
    /\ Len(args) = Len(params(kernel))
    /\ "nan_policy" \in DOMAIN kwds /\ "axis" \in DOMAIN kwds
    /\ Len(calls) = 2
    /\ DOMAIN RestKw # {}
    /\ \A c \in 1..2 :
          /\ calls[c].kwds = RestKw
          /\ \A p \in DOMAIN RestKw : calls[c].kwds[p] = args[PosOf(p)]


\* the call passes more positional arguments than the kernel has parameters
ExtraArgs == Len(args) > Len(params(kernel))
\* the same call without the arguments in excess
Declared == SubSeq(args, 1, Len(params(kernel)))

\* C25: positional arguments beyond the parameters of the kernel are bound
\* to no parameter and raise no error: the call returns (or raises) what
\* the same call without them does, with the same kernel invocations.
C25_ExtraArgsDropped ==
    (ExtraArgs /\ pc = "done") =>
        /\ out = wrapper(kernel, Declared, kwds).ret
        /\ calls = wrapper(kernel, Declared, kwds).called
        /\ \A c \in 1..Len(calls) :
              /\ Len(calls[c].samples) = n_samples(kernel)
              /\ DOMAIN calls[c].kwds \subseteq Seq2Set(params(kernel))
              /\ \A p \in DOMAIN calls[c].kwds :
                    calls[c].kwds[p] = args[PosOf(p)]

\* a call with one argument too many computes a result from its first
\* arguments
C25_Witness ==
    /\ ExtraArgs /\ pc = "done" /\ out.ok
    /\ Len(args) = Len(params(kernel)) + 1
    /\ Len(calls) = 1
    /\ \A j \in 1..n_samples(kernel) : calls[1].samples[j] = args[j]
    /\ out = hypotest_fun_in(kernel, calls[1].samples, calls[1].kwds)


\* ------------------------------------------------ the kernels' own checks
\* A kernel called as the wrapper calls it: samples of at least one
\* dimension by position, its other parameters by keyword.
\* values of the other parameters, in and out of their domain
KernelParValues(k) ==
    CASE k = "epps_singleton_2samp" ->
            {<<>>, [t |-> Array(<<2>>, <<4, 8>>)], [t |-> Array(<<2>>, <<4, 0>>)],
             [t |-> Array(<<1, 2>>, <<4, 8>>)], [t |-> Array(<<>>, <<4>>)]}
      [] k = "cramervonmises" ->
            {[cdf |-> StrV("norm")]}
      [] k = "cramervonmises_2samp" ->
            {<<>>, [method |-> StrV("auto")], [method |-> StrV("exact")],
             [method |-> StrV("asymptotic")], [method |-> StrV("bogus")]}

\* vectors of up to MaxObs observations, and matrices
KernelShapes == {<<n>> : n \in 0..MaxObs} \cup {<<1, 1>>, <<1, MinObs>>, <<2, MinObs>>}

InitKernel ==
    /\ \E k \in Kernels :
       \E sh \in [1..n_samples(k) -> KernelShapes], par \in KernelParValues(k) :
          /\ kernel = k
          /\ probe = [samples |-> MkSamples(sh, {}), kwds |-> par,
                      ret |-> Unset]
    /\ pc = "kernel"
    /\ args = <<>>
    /\ kwds = <<>>
    /\ samples = <<>>
    /\ axis = Unset
    /\ nan_policy = Unset
    /\ kw = <<>>
    /\ x = Unset
    /\ split_indices = <<>>
    /\ hyp = "none"
    /\ ind = 0
    /\ res = <<>>
    /\ calls = <<>>
    /\ path = <<>>
    /\ out = Unset
    /\ mem = <<>>

\* hypotest_fun_in(*samples, **kwds)
CallKernelBody ==
    /\ pc = "kernel"
    /\ probe' = [probe EXCEPT
                    !.ret = hypotest_fun_in(kernel, probe.samples, probe.kwds)]
    /\ pc' = "returned"
    /\ UNCHANGED <<kernel, args, kwds, samples, axis, nan_policy, kw, x,
                   split_indices, hyp, ind, res, calls, path, out, mem>>

SpecKernel == InitKernel /\ [][CallKernelBody]_vars

\* the fewest observations the kernel accepts in a sample
MinSize(k) == IF k = "epps_singleton_2samp" THEN MinObs ELSE 2
\* a sample of the call has more than one dimension / too few observations
SampleNotVector == \E j \in 1..Len(probe.samples) : ndim(probe.samples[j]) > 1
SampleTooShort ==
    \E j \in 1..Len(probe.samples) :
        /\ ndim(probe.samples[j]) = 1
        /\ Len(probe.samples[j].data) < MinSize(kernel)
\* a parameter of the call is out of its domain: t not 1-d or with an
\* element that is not positive, a method that is not known
ParOutOfDomain ==
    \/ /\ "t" \in DOMAIN probe.kwds
       /\ \/ ndim(probe.kwds["t"]) # 1
          \/ \E j \in 1..Len(probe.kwds["t"].data) : probe.kwds["t"].data[j] <= 0
    \/ /\ "method" \in DOMAIN probe.kwds
       /\ probe.kwds["method"] \notin {StrV("auto"), StrV("exact"),
                                       StrV("asymptotic")}

\* C26 as stated: each kernel raises ValueError, and computes nothing, when
\* a sample has more than one dimension or too few observations (fewer than
\* 5 for epps_singleton_2samp, fewer than 2 for the Cramer-von Mises
\* kernels) or when a parameter is out of its domain (t not positive or not
\* 1-d, method not known).
C26_AsStated ==
    (pc = "returned" /\ (SampleNotVector \/ SampleTooShort \/ ParOutOfDomain))
        => probe.ret = Raise("ValueError", "kernel")


\* C26, apart from a 0-d t: the statement holds for every other call, and a
\* positive 0-d t (a plain number) passes the checks of lines 376-379 and
\* fails with the TypeError of len(t) at line 393.
C26_ExceptScalarT ==
    pc = "returned" =>
        IF "t" \in DOMAIN probe.kwds /\ ndim(probe.kwds["t"]) = 0
        THEN ~SampleNotVector /\ ~SampleTooShort
                => probe.ret = Raise("TypeError", "kernel")
        ELSE (SampleNotVector \/ SampleTooShort \/ ParOutOfDomain)
                <=> probe.ret = Raise("ValueError", "kernel")


\* ------------------------------ method='auto' of cramervonmises_2samp
\* the sample size named for method='auto' (docstring line 1566, line 1633)
AutoSize == 10

\* cramervonmises_2samp on two NaN-free vectors of 2 to AutoSize + 1
\* observations, method given or left at its default 'auto'
InitAuto ==
    /\ \E n \in [1..2 -> 2..(AutoSize + 1)] :
       \E par \in {<<>>, [method |-> StrV("auto")], [method |-> StrV("exact")],
                   [method |-> StrV("asymptotic")]} :
          probe = [samples |-> [j \in 1..2 |->
                                   Array1([t \in 1..n[j] |-> Elem(j, t)])],
                   kwds |-> par, ret |-> Unset]
    /\ kernel = "cramervonmises_2samp"
    /\ pc = "kernel"
    /\ args = <<>>
    /\ kwds = <<>>
    /\ samples = <<>>
    /\ axis = Unset
    /\ nan_policy = Unset
    /\ kw = <<>>
    /\ x = Unset
    /\ split_indices = <<>>
    /\ hyp = "none"
    /\ ind = 0
    /\ res = <<>>
    /\ calls = <<>>
    /\ path = <<>>
    /\ out = Unset
    /\ mem = <<>>

SpecAuto == InitAuto /\ [][CallKernelBody]_vars

\* the call leaves the choice of the method to the kernel
IsAuto ==
    "method" \in DOMAIN probe.kwds => probe.kwds["method"] = StrV("auto")
\* the method the p-value of the returned result was computed with
MethodUsed == probe.ret.val.pvalue[1].par.method

\* C27 as stated: with method='auto', cramervonmises_2samp computes the
\* exact p-value if both samples contain less than 10 observations, and
\* uses the asymptotic distribution otherwise.
C27_AsStated ==
    (pc = "returned" /\ IsAuto) =>
        /\ probe.ret.ok
        /\ MethodUsed =
              IF \A j \in 1..2 : Len(probe.samples[j].data) < AutoSize
              THEN StrV("exact") ELSE StrV("asymptotic")

\* C27, what the code does: the exact p-value is computed when neither
\* sample has more than 10 observations, 10 included.
C27_AutoAtMost ==
    (pc = "returned" /\ IsAuto) =>
        /\ probe.ret.ok
        /\ MethodUsed =
              IF \A j \in 1..2 : Len(probe.samples[j].data) <= AutoSize
              THEN StrV("exact") ELSE StrV("asymptotic")


\* ------------------------------------- barnard_exact and boschloo_exact
\* A table is a 2-d array of integers, row-major: for a 2 x 2 table,
\* data[1] = table[0, 0], data[2] = table[0, 1], data[3] = table[1, 0],
\* data[4] = table[1, 1].  Probabilities are exact fractions [num, den].
Frac(n, d) == [nan |-> FALSE, num |-> n, den |-> d]
\* the dataclasses BarnardExactResult and BoschlooExactResult
ExactResult(statistic, pvalue) == [statistic |-> statistic, pvalue |-> pvalue]

\* table.sum(axis=0) of a 2 x 2 table
col_sums(table) == <<table.data[1] + table.data[3], table.data[2] + table.data[4]>>

\* binomial coefficient (scipy.special), 0 outside 0 <= k <= n
RECURSIVE comb(_, _)
comb(n, k) ==
    IF k < 0 \/ k > n THEN 0
    ELSE IF k = 0 THEN 1
    ELSE (comb(n - 1, k - 1) * n) \div k

RECURSIVE pow(_, _)
pow(b, e) == IF e = 0 THEN 1 ELSE b * pow(b, e - 1)

\* the sample space: x1 = 0..total_col_1 successes in the first column,
\* x2 = 0..total_col_2 in the second
sample_space(c1, c2) == (0..c1) \X (0..c2)

\* the points of [0, 1] at which the nuisance parameter is tried: k / Grid
Grid == 2

\* _get_binomial_log_p_value_with_nuisance_param at nuisance parameter
\* k / Grid: the probability of the tables in index_arr, as a numerator over
\* Grid^(c1 + c2) (the function returns minus its logarithm)
binomial_p_value(k, c1, c2, index_arr) ==
    LET cells == [p \in 1..((c1 + 1) * (c2 + 1)) |->
                     <<(p - 1) \div (c2 + 1), (p - 1) % (c2 + 1)>>]
    IN  Sum([p \in 1..Len(cells) |->
                LET x1 == cells[p][1]  x2 == cells[p][2] IN
                IF cells[p] \in index_arr
                THEN comb(c1, x1) * comb(c2, x2)
                     * pow(k, x1 + x2) * pow(Grid - k, c1 + c2 - x1 - x2)
                ELSE 0])

\* shgo(...) and np.clip(np.exp(-result.fun), 0, 1): the largest p-value
\* over the nuisance parameter, kept within [0, 1]
max_p_value(c1, c2, index_arr) ==
    LET den  == pow(Grid, c1 + c2)
        best == Max({binomial_p_value(k, c1, c2, index_arr) : k \in 0..Grid})
    IN  Frac(IF best > den THEN den ELSE IF best < 0 THEN 0 ELSE best, den)

\* the Wald statistic of (x1, x2) as sign and squared size num / den (den = 0:
\* infinite), up to a factor common to the whole sample space
wald(x1, x2, c1, c2, pooled) ==
    LET d == x1 * c2 - x2 * c1
        s == x1 + x2
        variance == IF pooled THEN s * (c1 + c2 - s)
                    ELSE x1 * (c1 - x1) * c2 * c2 * c2
                         + x2 * (c2 - x2) * c1 * c1 * c1
    IN  IF d = 0 THEN [sgn |-> 0, num |-> 0, den |-> 1]
        ELSE [sgn |-> IF d > 0 THEN 1 ELSE -1, num |-> d * d, den |-> variance]
\* np.abs(a) >= abs(b)
abs_ge(a, b) == a.num * b.den >= b.num * a.den
\* a >= b
wald_ge(a, b) ==
    IF a.sgn # b.sgn THEN a.sgn > b.sgn
    ELSE IF a.sgn = 0 THEN TRUE
    ELSE IF a.sgn = 1 THEN abs_ge(a, b) ELSE abs_ge(b, a)

\* barnard_exact(table, alternative, pooled, n)
barnard_exact(table, alternative, pooled, n) ==
    IF n <= 0 THEN Raise("ValueError", "barnard_exact")
    ELSE IF table.shape # <<2, 2>> THEN Raise("ValueError", "barnard_exact")
    ELSE IF \E j \in 1..4 : table.data[j] < 0
         THEN Raise("ValueError", "barnard_exact")
    ELSE IF 0 \in Seq2Set(col_sums(table))
         THEN Ok(ExactResult(NaNField, Frac(1, 1)))
    ELSE
    LET c1 == col_sums(table)[1]
        c2 == col_sums(table)[2]
        wald_stat_obs == wald(table.data[1], table.data[2], c1, c2, pooled)
        w(q) == wald(q[1], q[2], c1, c2, pooled)
    IN
    IF alternative \notin {"two-sided", "less", "greater"}
    THEN Raise("ValueError", "barnard_exact")
    ELSE
    LET index_arr ==
            CASE alternative = "two-sided" ->
                    {q \in sample_space(c1, c2) : abs_ge(w(q), wald_stat_obs)}
              [] alternative = "less" ->
                    {q \in sample_space(c1, c2) : wald_ge(wald_stat_obs, w(q))}
              [] alternative = "greater" ->
                    {q \in sample_space(c1, c2) : wald_ge(w(q), wald_stat_obs)}
    IN  Ok(ExactResult(wald_stat_obs, max_p_value(c1, c2, index_arr)))

\* hypergeom.cdf(k, M, n, N) as a numerator over comb(M, N)
hypergeom_cdf(k, M, n, N) ==
    Sum([j \in 1..(k + 1) |-> comb(n, j - 1) * comb(M - n, N - (j - 1))])

\* lines 1344-1354 and 1375-1398: boschloo_exact for a one-sided
\* alternative on a table that passed the checks
boschloo_one_sided(table, alternative) ==
    LET c1    == col_sums(table)[1]
        c2    == col_sums(table)[2]
        total == c1 + c2
        pvalues(q) == IF alternative = "less"
                      THEN hypergeom_cdf(q[1], total, q[1] + q[2], c1)
                      ELSE hypergeom_cdf(q[2], total, q[1] + q[2], c2)
        fisher_stat == pvalues(<<table.data[1], table.data[2]>>)
        index_arr == {q \in sample_space(c1, c2) : pvalues(q) <= fisher_stat}
    IN  ExactResult(Frac(fisher_stat,
                         comb(total, IF alternative = "less" THEN c1 ELSE c2)),
                    max_p_value(c1, c2, index_arr))

\* lines 1364-1367: twice the p-value of the chosen one-sided test
two_sided(chosen) ==
    ExactResult(chosen.statistic, Frac(2 * chosen.pvalue.num, chosen.pvalue.den))

\* boschloo_exact(table, alternative, n)
boschloo_exact(table, alternative, n) ==
    IF n <= 0 THEN Raise("ValueError", "boschloo_exact")
    ELSE IF table.shape # <<2, 2>> THEN Raise("ValueError", "boschloo_exact")
    ELSE IF \E j \in 1..4 : table.data[j] < 0
         THEN Raise("ValueError", "boschloo_exact")
    ELSE IF 0 \in Seq2Set(col_sums(table))
         THEN Ok(ExactResult(NaNField, NaNField))
    ELSE IF alternative \in {"less", "greater"}
         THEN Ok(boschloo_one_sided(table, alternative))
    ELSE IF alternative = "two-sided"
         THEN LET boschloo_less == boschloo_one_sided(table, "less")
                  boschloo_greater == boschloo_one_sided(table, "greater")
              IN  Ok(two_sided(IF boschloo_less.pvalue.num
                                    < boschloo_greater.pvalue.num
                               THEN boschloo_less ELSE boschloo_greater))
    ELSE Raise("ValueError", "boschloo_exact")

\* the largest count in a table
MaxCount == 2

\* calls of the two tests: 2 x 2 tables of counts from -1 to MaxCount and a
\* 2 x 3 table, valid and invalid alternatives, n positive or not
Tables ==
    {Array(<<2, 2>>, d) : d \in [1..4 -> -1..MaxCount]}
        \cup {Array(<<2, 3>>, [j \in 1..6 |-> 1])}

InitExact ==
    /\ \E f \in {"barnard_exact", "boschloo_exact"}, t \in Tables,
          alt \in {"two-sided", "less", "greater", "both"},
          pl \in BOOLEAN, nn \in {0, 32} :
          /\ (f = "boschloo_exact" => pl)
          /\ probe = [fun |-> f, table |-> t, alternative |-> alt,
                      pooled |-> pl, n |-> nn, ret |-> Unset]
    /\ kernel = "none"
    /\ pc = "exact"
    /\ args = <<>>
    /\ kwds = <<>>
    /\ samples = <<>>
    /\ axis = Unset
    /\ nan_policy = Unset
    /\ kw = <<>>
    /\ x = Unset
    /\ split_indices = <<>>
    /\ hyp = "none"
    /\ ind = 0
    /\ res = <<>>
    /\ calls = <<>>
    /\ path = <<>>
    /\ out = Unset
    /\ mem = <<>>

\* one call of barnard_exact or boschloo_exact
CallExact ==
    /\ pc = "exact"
    /\ probe' = [probe EXCEPT !.ret =
                    IF probe.fun = "barnard_exact"
                    THEN barnard_exact(probe.table, probe.alternative,
                                       probe.pooled, probe.n)
                    ELSE boschloo_exact(probe.table, probe.alternative,
                                        probe.n)]
    /\ pc' = "returned"
    /\ UNCHANGED <<kernel, args, kwds, samples, axis, nan_policy, kw, x,
                   split_indices, hyp, ind, res, calls, path, out, mem>>

SpecExact == InitExact /\ [][CallExact]_vars

\* the table of the call passes the checks of shape and sign, and n is
\* positive
ValidTable ==
    /\ probe.n > 0
    /\ probe.table.shape = <<2, 2>>
    /\ \A j \in 1..4 : probe.table.data[j] >= 0
ZeroColumn == ValidTable /\ 0 \in Seq2Set(col_sums(probe.table))
ValidAlternative == probe.alternative \in {"two-sided", "less", "greater"}

\* C28 as stated: for a valid table with a column that sums to zero, both
\* functions return a result with statistic NaN and p-value 1, without
\* running the optimizer.
C28_AsStated ==
    (pc = "returned" /\ ZeroColumn) =>
        probe.ret = Ok(ExactResult(NaNField, Frac(1, 1)))


\* C28, what the code does: barnard_exact returns statistic NaN and p-value
\* 1, boschloo_exact returns NaN for both, whatever the alternative.
C28_ZeroColumn ==
    (pc = "returned" /\ ZeroColumn) =>
        probe.ret = IF probe.fun = "barnard_exact"
                    THEN Ok(ExactResult(NaNField, Frac(1, 1)))
                    ELSE Ok(ExactResult(NaNField, NaNField))


\* a p-value that is a probability
IsProbability(p) == ~p.nan /\ 0 <= p.num /\ p.num <= p.den

\* C30 as stated: every result returned by barnard_exact and boschloo_exact
\* has a p-value in [0, 1], or NaN when a column of the table sums to zero,
\* for every alternative, 'two-sided' included.
C30_AsStated ==
    (pc = "returned" /\ probe.ret.ok) =>
        \/ IsProbability(probe.ret.val.pvalue)
        \/ ZeroColumn /\ probe.ret.val.pvalue = NaNField

\* C30, what the code does: the p-value is a probability or, for a
\* zero column, NaN, except for the two-sided alternative of
\* boschloo_exact: there it is twice the smaller of the two one-sided
\* p-values, returned with the statistic of that one-sided test, and
\* exceeds 1 whenever both one-sided p-values exceed 1/2.
C30_TwiceTheSmaller ==
    (pc = "returned" /\ probe.ret.ok) =>
        IF probe.fun = "boschloo_exact" /\ probe.alternative = "two-sided"
               /\ ~ZeroColumn
        THEN LET less    == boschloo_exact(probe.table, "less", probe.n).val
                 greater == boschloo_exact(probe.table, "greater", probe.n).val
                 smaller == IF less.pvalue.num < greater.pvalue.num
                            THEN less ELSE greater
             IN  /\ IsProbability(less.pvalue) /\ IsProbability(greater.pvalue)
                 /\ probe.ret.val.statistic = smaller.statistic
                 /\ probe.ret.val.pvalue.den = smaller.pvalue.den
                 /\ probe.ret.val.pvalue.num = 2 * smaller.pvalue.num
        ELSE \/ IsProbability(probe.ret.val.pvalue)
             \/ ZeroColumn /\ probe.ret.val.pvalue = NaNField


\* C29 as stated: for every table that passes the checks of shape and sign
\* and every positive n, a call whose alternative is not 'two-sided',
\* 'less' or 'greater' raises ValueError and returns no result.
C29_AsStated ==
    (pc = "returned" /\ ValidTable /\ ~ValidAlternative) =>
        /\ ~probe.ret.ok
        /\ probe.ret.type = "ValueError"

\* C29, what the code does: the alternative is looked at only after the
\* return for a zero column, so the ValueError is raised exactly for the
\* tables with no zero column; with a zero column the call returns its
\* result whatever the alternative is.
C29_UnlessZeroColumn ==
    (pc = "returned" /\ ValidTable /\ ~ValidAlternative) =>
        IF ZeroColumn
        THEN probe.ret.ok /\ probe.ret.val.statistic = NaNField
        ELSE probe.ret = Raise("ValueError", probe.fun)

====
